---- MODULE Spec2Model ----
(***************************************************************************)
(* State-machine model of the cron-manager scheduler core:                 *)
(*   - SchedulerService   (timer registry, execution queue, driver)        *)
(*   - ExecutionService   (HTTP invoker)                                   *)
(*   - CronJobsService    (create / update / remove / toggle / execute)    *)
(*   - ReschedulingService (hourly controller sweep)                       *)
(*   - ApiTokenGuard, RateLimitInterceptor (the REST surface in front of   *)
(*     CronJobsController)                                                 *)
(* The store (Prisma) is modelled as three tables: jobs, executions,       *)
(* scheduleChanges.  Time is a bounded integer clock whose unit is one     *)
(* minute, the resolution of a 5-field cron expression.                    *)
(***************************************************************************)
EXTENDS Integers, Sequences, FiniteSets, TLC

(***************************************************************************)
(* Bounds of the model                                                     *)
(***************************************************************************)
NumJobs == 2
MaxRetry == 2
MaxFirings == 2
MaxManual == 1
MaxTime == 1
MaxStoreFaults == 1
MaxConcurrency == 2
MaxChanges == 2
MaxLimit == 2
MaxWindows == 2
MaxCalls == 2

JobIds == 1..NumJobs
Users == {"u1", "u2"}

(***************************************************************************)
(* Program constants                                                       *)
(***************************************************************************)
DefaultRetryCount == 3
DefaultTimeoutMs == 30000
BackoffBaseMs == 1000
BackoffCapMs == 60000
MsPerTick == 60000
WindowMs == 60000
DefaultRateLimit == 100
NaN == -1
None == "none"

(***************************************************************************)
(* Cron expressions.  An expression is a sequence of fields, a field is a  *)
(* sequence of lexical tokens: a number, "*", "/", "," or "-".             *)
(***************************************************************************)
Tok(t, n) == [t |-> t, n |-> n]
NumTok(n) == Tok("num", n)
Star == <<Tok("*", 0)>>
Num(n) == <<NumTok(n)>>
Step(s) == <<Tok("*", 0), Tok("/", 0), NumTok(s)>>
Range(a, b) == <<NumTok(a), Tok("-", 0), NumTok(b)>>
List2(a, b) == <<NumTok(a), Tok(",", 0), NumTok(b)>>
Cron5(minute) == <<minute, Star, Star, Star, Star>>

IsNumField(f) == Len(f) = 1 /\ f[1].t = "num"
IsStarField(f) == f = Star
IsStepField(f) == Len(f) = 3 /\ f[1].t = "*" /\ f[2].t = "/" /\ f[3].t = "num"
IsRangeField(f) == Len(f) = 3 /\ f[1].t = "num" /\ f[2].t = "-" /\ f[3].t = "num"
IsListField(f) == Len(f) = 3 /\ f[1].t = "num" /\ f[2].t = "," /\ f[3].t = "num"

\* The minutes of the hour a minute field selects (empty: the field is invalid).
MinuteSet(f) ==
    IF IsStarField(f) THEN 0..59
    ELSE IF IsNumField(f) THEN {m \in 0..59 : m = f[1].n}
    ELSE IF IsStepField(f) THEN
        IF f[3].n \in 1..59 THEN {m \in 0..59 : m % f[3].n = 0} ELSE {}
    ELSE IF IsRangeField(f) THEN
        IF f[1].n <= f[3].n /\ f[3].n <= 59 THEN f[1].n..f[3].n ELSE {}
    ELSE IF IsListField(f) THEN
        IF f[1].n <= 59 /\ f[3].n <= 59 THEN {f[1].n, f[3].n} ELSE {}
    ELSE {}

\* cronParser.validate / new CronJob / CronExpressionParser.parse accept e.
CronValid(e) == Len(e) = 5 /\ MinuteSet(e[1]) # {} /\ \A i \in 2..5 : e[i] = Star

\* CronExpressionParser.parse(e).next(): first matching minute strictly after t.
CronNext(e, t) ==
    CHOOSE u \in (t + 1)..(t + 60) :
        /\ (u % 60) \in MinuteSet(e[1])
        /\ \A v \in (t + 1)..(u - 1) : (v % 60) \notin MinuteSet(e[1])

Timezones == {"UTC", "Mars/Phobos"}
TimezoneValid(tz) == tz = "UTC"

(***************************************************************************)
(* Rows of the store                                                       *)
(***************************************************************************)
FreeRow == [st |-> "free", isActive |-> FALSE, cronExpression |-> Cron5(Star),
            timezone |-> "UTC", retryCount |-> 0, timeoutMs |-> 0,
            createdBy |-> "u1", status |-> "PENDING",
            lastRunAt |-> NaN, nextRunAt |-> NaN]

Exists(row) == row.st = "live"

VARIABLES
    phase,              \* "boot", "running", "crashed" (boot failed),
                        \* "draining" (onModuleDestroy awaits the queue) or "stopped"
    now,                \* the clock
    concurrency,        \* MAX_CONCURRENT_EXECUTIONS
    enabled,            \* AUTO_RESCHEDULING_ENABLED === 'true'
    throwing,           \* the event names for which server.emit throws
    jobs,               \* table cronJob: JobIds -> row
    executions,         \* table cronExecution: sequence of rows
    scheduleChanges,    \* table scheduleChange: sequence of rows
    registeredJobs,     \* SchedulerService.registeredJobs: job id -> timer id, 0 if none
    schedulerRegistry,  \* Nest SchedulerRegistry: job id -> timer id, 0 if none
    timers,             \* the started, not stopped CronJob timers
    queue,              \* PQueue: ids of the waiting tasks, in dequeue order
    pending,            \* PQueue: number of tasks started and not settled
    tasks,              \* every call of executeJob: sequence of task records
    faults,             \* store failures injected so far
    published,          \* the cron:updated and schedule:changed events the
                        \* gateway has sent (emitCronUpdated, emitScheduleChanged)
    apiTokens,          \* table apiToken: token string -> record
    response,           \* what the last request to the cron controller met
    rateLimitStore,     \* RateLimitInterceptor.store: key -> [count, resetAt]
    limit,              \* RateLimitInterceptor.limit (API_RATE_LIMIT)
    passed,             \* key -> time -> the requests the interceptor let through
    calls               \* the CronJobsService calls that are between two awaits

dbVars == <<jobs, executions, scheduleChanges>>
regVars == <<registeredJobs, schedulerRegistry, timers>>
poolVars == <<queue, pending, tasks>>
cfgVars == <<concurrency, enabled, throwing>>
requestVars == <<apiTokens, response, rateLimitStore, limit, passed>>
webVars == <<requestVars, calls>>
vars == <<phase, now, cfgVars, dbVars, regVars, poolVars, faults, published, webVars>>

\* The process serves timers and requests from the end of the boot until
\* onModuleDestroy has returned: nothing in it looks at the shutdown.
Serving == phase \in {"running", "draining"}

(***************************************************************************)
(* Job registry: SchedulerService.registerJob / unregisterJob.             *)
(* They work on a record R of the tables and maps they touch, so that the  *)
(* commands and the controller sweep can chain them.                       *)
(***************************************************************************)
Current == [jobs |-> jobs, sc |-> scheduleChanges, reg |-> registeredJobs,
            sreg |-> schedulerRegistry, timers |-> timers]

Ok(R) == [s |-> R, threw |-> FALSE]
Threw(R) == [s |-> R, threw |-> TRUE]

TimerIds(R) == {t.tid : t \in R.timers}
FreshTimer(R) ==
    CHOOSE n \in 1..(Cardinality(R.timers) + 1) :
        n \notin TimerIds(R) /\ \A m \in 1..(n - 1) : m \in TimerIds(R)

\* cronJob.stop(); schedulerRegistry.deleteCronJob(); registeredJobs.delete()
\* inside try/catch: an exception is logged and swallowed.
unregisterJob(R, id) ==
    IF R.reg[id] # 0 THEN
        LET stopped == [R EXCEPT !.timers = {t \in R.timers : t.tid # R.reg[id]}]
        IN IF stopped.sreg[id] = 0
           THEN stopped    \* deleteCronJob throws: the map entry stays
           ELSE [stopped EXCEPT !.sreg[id] = 0, !.reg[id] = 0]
    ELSE R

RECURSIVE unregisterFrom(_, _)
\* for (const jobId of this.registeredJobs.keys()) this.unregisterJob(jobId)
unregisterFrom(id, R) ==
    IF id > NumJobs THEN R ELSE unregisterFrom(id + 1, unregisterJob(R, id))

\* new CronJob(expression, callback, null, false, timezone) throws on an
\* expression or a timezone it cannot parse.
CronJobConstructs(row) == CronValid(row.cronExpression) /\ TimezoneValid(row.timezone)

registerJob_NoUnregister(R, id, row) ==
    IF ~CronJobConstructs(row) THEN Threw(R)
    ELSE LET tid == FreshTimer(R)
             started == [R EXCEPT !.timers = @ \cup {[tid |-> tid, jobId |-> id, snap |-> row]}]
         IN IF started.sreg[id] # 0
            THEN Threw(started)
            ELSE Ok([started EXCEPT !.sreg[id] = tid, !.reg[id] = tid])

registerJob(R, id, row) ==
    LET R1 == IF R.reg[id] # 0 THEN unregisterJob(R, id) ELSE R
    IN IF ~CronJobConstructs(row) THEN Threw(R1)
       ELSE LET tid == FreshTimer(R1)
                started == [R1 EXCEPT !.timers = @ \cup {[tid |-> tid, jobId |-> id, snap |-> row]}]
            IN IF started.sreg[id] # 0
               THEN Threw(started)   \* addCronJob: duplicate name
               ELSE Ok([started EXCEPT !.sreg[id] = tid, !.reg[id] = tid])

Commit(R) ==
    /\ jobs' = R.jobs
    /\ scheduleChanges' = R.sc
    /\ registeredJobs' = R.reg
    /\ schedulerRegistry' = R.sreg
    /\ timers' = R.timers

(***************************************************************************)
(* CronJobsService commands, as functions from R to a result.              *)
(***************************************************************************)
Fields == {"cronExpression", "timezone", "isActive", "retryCount"}
NoExpr == <<>>

\* A request body: `has` lists the optional properties that are present.
Dto(has, e, tz, a, r, url) ==
    [has |-> has,
     cronExpression |-> IF "cronExpression" \in has THEN e ELSE NoExpr,
     timezone |-> IF "timezone" \in has THEN tz ELSE "UTC",
     isActive |-> IF "isActive" \in has THEN a ELSE FALSE,
     retryCount |-> IF "retryCount" \in has THEN r ELSE 0,
     endpoint |-> url]

AppendChange(R, id, old, new, by, reason) ==
    [R EXCEPT !.sc = Append(@, [cronJobId |-> id, oldCronExpression |-> old,
                                newCronExpression |-> new, changedBy |-> by,
                                reason |-> reason])]

\* validateEndpointReturnsJson: only an HTML answer of the probe rejects.
EndpointRejected(dto) == dto.endpoint = "html"

CronJobsService_create(R, id, dto, userId, t) ==
    IF ~CronValid(dto.cronExpression) THEN Threw(R)
    ELSE IF EndpointRejected(dto) THEN Threw(R)
    ELSE LET row == [st |-> "live",
                     isActive |-> IF "isActive" \in dto.has THEN dto.isActive ELSE TRUE,
                     cronExpression |-> dto.cronExpression,
                     timezone |-> dto.timezone,
                     retryCount |-> IF "retryCount" \in dto.has THEN dto.retryCount
                                    ELSE DefaultRetryCount,
                     timeoutMs |-> DefaultTimeoutMs,
                     createdBy |-> userId,
                     status |-> "PENDING",
                     lastRunAt |-> NaN,
                     nextRunAt |-> CronNext(dto.cronExpression, t)]
             R1 == [R EXCEPT !.jobs[id] = row]
         IN IF row.isActive THEN registerJob(R1, id, row) ELSE Ok(R1)

\* dto.cronExpression && ...: the property is present and not the empty string
Provided(dto) == "cronExpression" \in dto.has /\ dto.cronExpression # NoExpr

cronExpressionChanged_Provided(dto, existingJob) == Provided(dto)

\* dto.cronExpression && dto.cronExpression !== existingJob.cronExpression
cronExpressionChanged(dto, existingJob) ==
    Provided(dto) /\ dto.cronExpression # existingJob.cronExpression

\* prisma.cronJob.update({data: {...dto, updatedBy, updatedAt}}): the row
\* after the update, nextRunAt being part of dto when the expression changed
updatedRow(row, dto, changed, t) ==
    [row EXCEPT
        !.cronExpression = IF "cronExpression" \in dto.has THEN dto.cronExpression ELSE @,
        !.timezone = IF "timezone" \in dto.has THEN dto.timezone ELSE @,
        !.isActive = IF "isActive" \in dto.has THEN dto.isActive ELSE @,
        !.retryCount = IF "retryCount" \in dto.has THEN dto.retryCount ELSE @,
        !.nextRunAt = IF ~changed THEN @
                      ELSE IF CronValid(dto.cronExpression)
                      THEN CronNext(dto.cronExpression, t)
                      ELSE NaN]      \* the parse throws: null

expressionRefused_Never(dto) == FALSE

\* dto.cronExpression && !cronParser.validate(dto.cronExpression)
expressionRefused(dto) == Provided(dto) /\ ~CronValid(dto.cronExpression)

CronJobsService_update(R, id, dto, userId, t) ==
    LET existingJob == R.jobs[id]
    IN IF ~Exists(existingJob) THEN Threw(R)                      \* NotFound
       ELSE IF existingJob.createdBy # userId THEN Threw(R)       \* Forbidden
       ELSE IF expressionRefused(dto) THEN Threw(R)               \* BadRequest
       ELSE IF EndpointRejected(dto) THEN Threw(R)
       ELSE
         LET changed == cronExpressionChanged(dto, existingJob)
             R1 == IF changed
                   THEN AppendChange(R, id, existingJob.cronExpression,
                                     dto.cronExpression, userId, None)
                   ELSE R
             row == updatedRow(existingJob, dto, changed, t)
             R2 == [R1 EXCEPT !.jobs[id] = row]
             R3 == unregisterJob(R2, id)
         IN IF row.isActive THEN registerJob(R3, id, row) ELSE Ok(R3)

CronJobsService_remove(R, id, userId) ==
    LET cronJob == R.jobs[id]
    IN IF ~Exists(cronJob) THEN Threw(R)
       ELSE IF cronJob.createdBy # userId THEN Threw(R)
       ELSE LET R1 == unregisterJob(R, id)
            IN Ok([R1 EXCEPT !.jobs[id] = [FreeRow EXCEPT !.st = "deleted"]])

CronJobsService_toggle(R, id, userId) ==
    LET cronJob == R.jobs[id]
    IN IF ~Exists(cronJob) THEN Threw(R)
       ELSE IF cronJob.createdBy # userId THEN Threw(R)
       ELSE LET row == [cronJob EXCEPT !.isActive = ~cronJob.isActive]
                R1 == [R EXCEPT !.jobs[id] = row]
            IN IF row.isActive THEN registerJob(R1, id, row)
               ELSE Ok(unregisterJob(R1, id))

(***************************************************************************)
(* ReschedulingService: metrics, rules and the hourly sweep.               *)
(***************************************************************************)
RECURSIVE SumTimes(_, _)
SumTimes(seq, i) ==
    IF i > Len(seq) THEN 0
    ELSE (IF seq[i].executionTimeMs > 0 THEN seq[i].executionTimeMs ELSE 0)
         + SumTimes(seq, i + 1)

LastN(seq, n) == IF Len(seq) <= n THEN seq ELSE SubSeq(seq, Len(seq) - n + 1, Len(seq))

\* findMany({cronJobId}, startedAt desc, take 100): rows are appended in
\* startedAt order, so the latest 100 are the last 100 of the table.
calculateMetrics(job, id, execs) ==
    LET mine == LastN(SelectSeq(execs, LAMBDA e : e.cronJobId = id), 100)
        recent == LastN(mine, 10)
        IsSuccess(e) == e.status = "SUCCESS"
        IsFailed(e) == e.status = "FAILED"
        HasTime(e) == e.executionTimeMs > 0
        TimedOut(e) == e.executionTimeMs > 0 /\ e.executionTimeMs >= job.timeoutMs
    IN [totalExecutions |-> Len(mine),
        successful |-> Len(SelectSeq(mine, IsSuccess)),
        failed |-> Len(SelectSeq(mine, IsFailed)),
        timeSum |-> SumTimes(mine, 1),
        timeCount |-> Len(SelectSeq(mine, HasTime)),
        recentFailures |-> Len(SelectSeq(recent, IsFailed)),
        recentTimeouts |-> Len(SelectSeq(recent, TimedOut))]

\* Rates are kept as fractions: successRate = successful / totalExecutions
\* (1 when there is no execution), failureRate = failed / totalExecutions.
SuccessRateAtLeast95(m) ==
    IF m.totalExecutions = 0 THEN TRUE ELSE m.successful * 100 >= 95 * m.totalExecutions
FailureRateOverHalf(m) ==
    IF m.totalExecutions = 0 THEN FALSE ELSE m.failed * 2 > m.totalExecutions
AverageOver80PercentOfTimeout(job, m) ==
    IF m.timeCount = 0 THEN 0 > job.timeoutMs * 8
    ELSE m.timeSum * 10 > job.timeoutMs * 8 * m.timeCount

ParseInt(f) == IF Len(f) > 0 /\ f[1].t = "num" THEN f[1].n ELSE NaN
HasSlash(f) == \E i \in 1..Len(f) : f[i].t = "/"
FirstSlash(f) == CHOOSE i \in 1..Len(f) : f[i].t = "/" /\ \A k \in 1..(i - 1) : f[k].t # "/"
\* parts[0].split('/') : the first two pieces
SplitRange(f) == SubSeq(f, 1, FirstSlash(f) - 1)
SplitStep(f) ==
    LET rest == SubSeq(f, FirstSlash(f) + 1, Len(f))
    IN IF HasSlash(rest) THEN SubSeq(rest, 1, FirstSlash(rest) - 1) ELSE rest

Max2(a, b) == IF a >= b THEN a ELSE b
Min2(a, b) == IF a <= b THEN a ELSE b

Scaled_FloorFactor(n, fnum, fden) == IF n = NaN THEN NaN ELSE Max2(1, n * (fnum \div fden))

\* Math.max(1, Math.floor(n * factor)), factor = fnum / fden; NaN stays NaN
Scaled(n, fnum, fden) == IF n = NaN THEN NaN ELSE Max2(1, (n * fnum) \div fden)

extendCronInterval(e, fnum, fden) ==
    IF Len(e) # 5 THEN e
    ELSE LET minutes == ParseInt(e[1])
         IN IF minutes = NaN THEN
                IF HasSlash(e[1]) THEN
                    LET newStep == Scaled(ParseInt(SplitStep(e[1])), fnum, fden)
                    IN [e EXCEPT ![1] = SplitRange(e[1]) \o <<Tok("/", 0), NumTok(newStep)>>]
                ELSE e
            ELSE [e EXCEPT ![1] = Num(Scaled(minutes, fnum, fden))]

RuleNames == <<"success-based-keep", "failure-based-backoff", "timeout-based-reduce",
               "load-based-distribute", "consecutive-failures-disable">>

RuleCondition(k, job, m) ==
    CASE k = 1 -> SuccessRateAtLeast95(m) /\ m.totalExecutions >= 20
      [] k = 2 -> FailureRateOverHalf(m) /\ m.totalExecutions >= 10
      [] k = 3 -> m.recentTimeouts >= 3 /\ m.totalExecutions >= 10
      [] k = 4 -> AverageOver80PercentOfTimeout(job, m) /\ m.totalExecutions >= 10
      [] k = 5 -> m.recentFailures >= 3

\* prisma.cronJob.update({isActive: false}); the registry is not touched.
\* The update of a row that is gone rejects and writes nothing.
disableJob(R, id) ==
    IF Exists(R.jobs[id]) THEN [R EXCEPT !.jobs[id].isActive = FALSE] ELSE R

\* The action of rule k: the tables after it and the expression it returns
\* (NoExpr for null).
RuleAction(k, R, id, job) ==
    CASE k = 1 -> [s |-> R, expr |-> NoExpr]
      [] k = 2 -> [s |-> R, expr |-> extendCronInterval(job.cronExpression, 2, 1)]
      [] k = 3 -> [s |-> R, expr |-> extendCronInterval(job.cronExpression, 3, 2)]
      [] k = 4 -> [s |-> R, expr |-> extendCronInterval(job.cronExpression, 6, 5)]
      [] k = 5 -> [s |-> disableJob(R, id), expr |-> NoExpr]

RECURSIVE evaluateRules_NoStop(_, _, _, _, _)
evaluateRules_NoStop(k, R, id, job, m) ==
    IF k > Len(RuleNames) THEN [s |-> R, expr |-> NoExpr]
    ELSE IF RuleCondition(k, job, m) THEN
        LET res == RuleAction(k, R, id, job)
            rest == evaluateRules_NoStop(k + 1, res.s, id, job, m)
        IN IF res.expr # NoExpr THEN [s |-> rest.s, expr |-> res.expr] ELSE rest
    ELSE evaluateRules_NoStop(k + 1, R, id, job, m)

RECURSIVE evaluateRules(_, _, _, _, _)
\* rules k, k+1, ... in priority order; the first action that returns an
\* expression ends the evaluation
evaluateRules(k, R, id, job, m) ==
    IF k > Len(RuleNames) THEN [s |-> R, expr |-> NoExpr]
    ELSE IF RuleCondition(k, job, m) THEN
        LET res == RuleAction(k, R, id, job)
        IN IF res.expr # NoExpr THEN res
           ELSE evaluateRules(k + 1, res.s, id, job, m)
    ELSE evaluateRules(k + 1, R, id, job, m)

AutoReason == "Auto-rescheduling: auto-rescheduling"

applyRescheduling(R, id, job, newExpression, t) ==
    LET upd == CronJobsService_update(R, id,
                   Dto({"cronExpression", "timezone"}, newExpression, job.timezone,
                       FALSE, 0, None),
                   job.createdBy, t)
    IN IF upd.threw THEN upd
       ELSE Ok(AppendChange(upd.s, id, job.cronExpression, newExpression,
                            job.createdBy, AutoReason))

\* One iteration of the loop of evaluateAndReschedule, errors caught.
SweepJob(R, id, job, execs, t) ==
    LET res == evaluateRules(1, R, id, job, calculateMetrics(job, id, execs))
    IN IF res.expr # NoExpr /\ res.expr # job.cronExpression
       THEN applyRescheduling(res.s, id, job, res.expr, t).s
       ELSE res.s

\* What can go wrong in the iteration of one job: the store rejects the read
\* of calculateMetrics, or the owner has deleted the job since findMany.
Troubles == [JobIds -> {"none", "store", "deleted"}]

RECURSIVE SweepFrom_Abort(_, _, _, _, _, _)
SweepFrom_Abort(id, R, activeJobs, execs, t, trouble) ==
    IF id > NumJobs THEN R
    ELSE IF Exists(activeJobs[id]) /\ activeJobs[id].isActive
         THEN CASE trouble[id] = "store" -> R
                [] trouble[id] = "deleted" ->
                     CronJobsService_remove(R, id, activeJobs[id].createdBy).s
                [] OTHER ->
                     SweepFrom_Abort(id + 1, SweepJob(R, id, activeJobs[id], execs, t),
                                     activeJobs, execs, t, trouble)
         ELSE SweepFrom_Abort(id + 1, R, activeJobs, execs, t, trouble)

RECURSIVE SweepFrom(_, _, _, _, _, _)
\* activeJobs is the result of findMany at the start of the sweep; the catch
\* of the loop body logs the error of an iteration and the loop goes on
SweepFrom(id, R, activeJobs, execs, t, trouble) ==
    IF id > NumJobs THEN R
    ELSE IF Exists(activeJobs[id]) /\ activeJobs[id].isActive
         THEN LET R1 == CASE trouble[id] = "store" -> R
                          [] trouble[id] = "deleted" ->
                               SweepJob(CronJobsService_remove(
                                            R, id, activeJobs[id].createdBy).s,
                                        id, activeJobs[id], execs, t)
                          [] OTHER -> SweepJob(R, id, activeJobs[id], execs, t)
              IN SweepFrom(id + 1, R1, activeJobs, execs, t, trouble)
         ELSE SweepFrom(id + 1, R, activeJobs, execs, t, trouble)

evaluateAndReschedule_NoFlag(R, execs, t, trouble) ==
    SweepFrom(1, R, R.jobs, execs, t, trouble)

\* if (!this.enabled) return;
evaluateAndReschedule(R, execs, t, trouble) ==
    IF ~enabled THEN R ELSE SweepFrom(1, R, R.jobs, execs, t, trouble)

(***************************************************************************)
(* Worker pool: the PQueue behind SchedulerService.executeJob.             *)
(***************************************************************************)
Pool == [queue |-> queue, pending |-> pending, tasks |-> tasks]

NoResult == [status |-> 0, data |-> <<>>, isString |-> FALSE]

\* The task executeJob hands to the queue: () => executeJobInternal(prismaJob).
\* http, sleeps and wroteJob record what the firing did: the results of its
\* invoker calls, its backoff sleeps, the terminal status it wrote on the job
\* and the rank of that write among the terminal writes of all firings;
\* arrived is the phase of the process when executeJob was called, gone
\* tells whether the job row was already deleted when the firing started,
\* events lists what the gateway sent for the firing.
NewTask(id, row, isManual, priority) ==
    [job |-> id, snap |-> row, manual |-> isManual, priority |-> priority,
     pc |-> "queued", startTime |-> 0, at |-> 0, attempt |-> 0, lastError |-> None,
     exec |-> 0, result |-> NoResult, http |-> <<>>, sleeps |-> <<>>,
     wroteJob |-> None, order |-> 0, arrived |-> phase, gone |-> FALSE,
     events |-> <<>>]

\* PriorityQueue.enqueue: behind every waiting task of the same or a higher
\* priority
enqueue(P, tid, priority) ==
    LET ahead == {i \in 1..Len(P.queue) : P.tasks[P.queue[i]].priority >= priority}
        k == IF \A i \in 1..Len(P.queue) : i \in ahead THEN Len(P.queue)
             ELSE (CHOOSE i \in 1..Len(P.queue) :
                      i \notin ahead /\ \A m \in 1..(i - 1) : m \in ahead) - 1
    IN [P EXCEPT !.queue = SubSeq(@, 1, k) \o <<tid>> \o SubSeq(@, k + 1, Len(@))]

\* The head of the queue starts: executeJobInternal runs up to its first await
\* (startTime = Date.now(), the job RUNNING write is issued).
StartHead(P, t) ==
    [queue |-> Tail(P.queue),
     pending |-> P.pending + 1,
     tasks |-> [P.tasks EXCEPT ![Head(P.queue)].pc = "writeRunning",
                               ![Head(P.queue)].startTime = t,
                               ![Head(P.queue)].at = t,
                               ![Head(P.queue)].gone =
                                   ~Exists(jobs[P.tasks[Head(P.queue)].job])]]

tryToStartAnother_NoLimit(P, t) ==
    IF P.queue # <<>> THEN StartHead(P, t) ELSE P

tryToStartAnother(P, t) ==
    IF P.queue # <<>> /\ P.pending < concurrency THEN StartHead(P, t) ELSE P

\* executionQueue.add(fn, {priority})
PQueue_add(P, task, t) ==
    LET tid == Len(P.tasks) + 1
        P1 == [P EXCEPT !.tasks = Append(@, task)]
    IN tryToStartAnother(enqueue(P1, tid, task.priority), t)

\* the finally of a started task: pending--, then the next one starts
PQueue_next(P, t) == tryToStartAnother([P EXCEPT !.pending = @ - 1], t)

CommitPool(P) ==
    /\ queue' = P.queue
    /\ pending' = P.pending
    /\ tasks' = P.tasks

\* executeJob(prismaJob, isManual = false): priority 1 for a manual call
executeJob(P, id, row, isManual, origin, t) ==
    PQueue_add(P, NewTask(id, row, origin, IF isManual THEN 1 ELSE 0), t)

(***************************************************************************)
(* HTTP invoker: ExecutionService.executeHttpRequest.                      *)
(***************************************************************************)
Statuses == {200, 400}
JsonData == [data |-> <<"{", "ok", "}">>, isString |-> FALSE]
HtmlData == [data |-> <<"<!DOCTYPE", "html", ">">>, isString |-> TRUE]
Bodies == {JsonData, HtmlData}

\* What the transport (axios) can do with one request
TransportOutcomes ==
    [kind : {"response"}, status : Statuses, body : {JsonData}]
    \cup [kind : {"response"}, status : {200}, body : {HtmlData}]
    \cup [kind : {"ECONNABORTED", "norequest-response"}, status : {0}, body : {JsonData}]

\* validateStatus: () => true, so every response is returned, whatever its
\* status; only a timeout or a missing response throws.
executeHttpRequest(o) ==
    IF o.kind = "response"
    THEN [threw |-> FALSE, status |-> o.status, data |-> o.body.data,
          isString |-> o.body.isString, message |-> None]
    ELSE IF o.kind = "ECONNABORTED"
    THEN [threw |-> TRUE, status |-> 0, data |-> <<>>, isString |-> FALSE,
          message |-> "Request timeout after timeoutMs"]
    ELSE [threw |-> TRUE, status |-> 0, data |-> <<>>, isString |-> FALSE,
          message |-> "No response received"]

(***************************************************************************)
(* Response-body filter of the driver                                      *)
(***************************************************************************)
RECURSIVE TrimLeft(_)
TrimLeft(text) == IF text # <<>> /\ Head(text) = " " THEN TrimLeft(Tail(text)) ELSE text
Includes(text, tok) == \E i \in 1..Len(text) : text[i] = tok
StartsWithAny(text, toks) == text # <<>> /\ Head(text) \in toks
OpensTag(tok) == tok \in {"<", "<!DOCTYPE", "<!doctype", "<!Doctype", "<!DocType",
                          "<html", "<HTML", "<Html", "<hTmL",
                          "</html>", "</HTML>", "<div"}

isHtml(data) ==
    LET trimmed == TrimLeft(data)
    IN \/ StartsWithAny(trimmed, {"<!DOCTYPE", "<!doctype", "<!Doctype"})
       \/ StartsWithAny(trimmed, {"<html", "<HTML", "<Html"})
       \/ (trimmed # <<>> /\ OpensTag(Head(trimmed))
            /\ (Includes(trimmed, "</html>") \/ Includes(trimmed, "</HTML>")))
       \/ (Includes(trimmed, "<!DOCTYPE") /\ Includes(trimmed, "<html"))

NullBody == [isNull |-> TRUE, text |-> <<>>]
\* JSON.stringify(result.data): a string gains its quotes
responseBodyToSave(result) ==
    IF isHtml(result.data) THEN NullBody
    ELSE [isNull |-> FALSE,
          text |-> IF result.isString THEN <<"\"">> \o result.data \o <<"\"">>
                   ELSE result.data]

(***************************************************************************)
(* Execution driver: SchedulerService.executeJobInternal, one action per   *)
(* await.  task.at is the time of the synchronous block that issued the    *)
(* pending call: new Date() and Date.now() of that block read it.          *)
(***************************************************************************)
RECURSIVE Pow2(_)
Pow2(n) == IF n <= 0 THEN 1 ELSE 2 * Pow2(n - 1)

\* Math.min(1000 * Math.pow(2, attempt - 1), 60000), attempt already incremented
backoffMs(attempt) == Min2(BackoffBaseMs * Pow2(attempt - 1), BackoffCapMs)

\* while (attempt <= prismaJob.retryCount)
LoopContinues(attempt, retryCount) == attempt <= retryCount

\* the inner catch: lastError, attempt++, then the backoff sleep or the end
\* of the loop (where the FAILED transaction is issued)
AttemptFailed(task, message, t) ==
    LET a == task.attempt + 1
    IN IF LoopContinues(a, task.snap.retryCount)
       THEN [task EXCEPT !.attempt = a, !.lastError = message, !.at = t,
                         !.pc = "sleep", !.sleeps = Append(@, backoffMs(a))]
       ELSE [task EXCEPT !.attempt = a, !.lastError = message, !.at = t,
                         !.pc = "writeFailed"]

executionTimeMs(task) == (task.at - task.startTime) * MsPerTick

Running(task) == task.pc \notin {"queued", "done", "rejected"}

\* WebsocketGateway.emitExecutionStarted / emitExecutionCompleted call
\* this.server.emit with no try/catch: an exception of emit reaches the caller
Events == {"execution:started", "execution:completed"}
emitThrows(event) == event \in throwing

\* WebsocketGateway.emitExecutionStarted / emitExecutionCompleted: the event
\* goes to every client and then to the room of the job
Emitted(task, event, status) ==
    [task EXCEPT !.events = @ \o <<[name |-> event, to |-> "all", status |-> status],
                                    [name |-> event, to |-> "job", status |-> status]>>]

updateRejects_OnFaultOnly(f, row) == f

\* a write of the driver rejects when the store fails or when the row of
\* the job is gone (update of a missing record, foreign key of a create)
updateRejects(f, row) == f \/ ~Exists(row)

Fault(f) ==
    /\ f => faults < MaxStoreFaults
    /\ faults' = IF f THEN faults + 1 ELSE faults

\* the task settles: PQueue's finally
Settle(i, pc) ==
    CommitPool(PQueue_next([Pool EXCEPT !.tasks[i].pc = pc], now))

\* The firing has written a terminal status on its job row: the write is
\* ranked after every terminal write made so far.
Wrote(task, status) ==
    LET ranks == {tasks[k].order : k \in 1..Len(tasks)} \cup {0}
    IN [task EXCEPT !.wroteJob = status,
                    !.order = 1 + CHOOSE m \in ranks : \A n \in ranks : n <= m]

terminalJobRow_IfRunning(row, task, status) ==
    IF row.status = "RUNNING"
    THEN [row EXCEPT !.status = status,
                     !.nextRunAt = CronNext(task.snap.cronExpression, task.at)]
    ELSE row

\* tx.cronJob.update({where: {id}, data: {status, nextRunAt}}) of the terminal
\* transaction: the row is written whatever it holds
terminalJobRow(row, task, status) ==
    [row EXCEPT !.status = status,
                !.nextRunAt = CronNext(task.snap.cronExpression, task.at)]

\* executionQueue.onIdle() resolves once the queue is empty and no task is
\* pending
Idle(P) == P.queue = <<>> /\ P.pending = 0

\* The rest of onModuleDestroy, run when the task that settles leaves the
\* queue idle: every registered job is unregistered.
Drained ==
    IF phase = "draining" /\ queue' = <<>> /\ pending' = 0
    THEN /\ phase' = "stopped"
         /\ LET R == unregisterFrom(1, Current)
            IN /\ registeredJobs' = R.reg
               /\ schedulerRegistry' = R.sreg
               /\ timers' = R.timers
    ELSE UNCHANGED <<phase, regVars>>

\* prisma.cronJob.update({status: RUNNING, lastRunAt}) resolves or rejects,
\* then emitExecutionStarted
WriteRunning ==
    \E i \in 1..Len(tasks), f \in BOOLEAN :
        /\ Serving
        /\ tasks[i].pc = "writeRunning"
        /\ Fault(f)
        /\ IF updateRejects(f, jobs[tasks[i].job])
           THEN /\ Settle(i, "rejected")
                /\ UNCHANGED jobs
           ELSE /\ jobs' = [jobs EXCEPT ![tasks[i].job].status = "RUNNING",
                                        ![tasks[i].job].lastRunAt = tasks[i].startTime]
                /\ IF emitThrows("execution:started")
                   THEN Settle(i, "rejected")      \* thrown outside the try
                   ELSE /\ tasks' = [tasks EXCEPT ![i] =
                               [Emitted(@, "execution:started", None)
                                   EXCEPT !.pc = "createExec", !.at = now]]
                        /\ UNCHANGED <<queue, pending>>
        /\ Drained
        /\ UNCHANGED <<now, cfgVars, published, webVars, executions, scheduleChanges>>

\* prisma.cronExecution.create resolves or rejects
CreateExecution ==
    \E i \in 1..Len(tasks), f \in BOOLEAN :
        /\ Serving
        /\ tasks[i].pc = "createExec"
        /\ Fault(f)
        /\ IF updateRejects(f, jobs[tasks[i].job])
           THEN /\ tasks' = [tasks EXCEPT ![i].pc = "fatal", ![i].at = now]
                /\ UNCHANGED executions
           ELSE /\ executions' = Append(executions,
                       [cronJobId |-> tasks[i].job, startedAt |-> tasks[i].at,
                        completedAt |-> NaN, status |-> "RUNNING",
                        responseStatus |-> NaN, responseBody |-> NullBody,
                        errorMessage |-> None, executionTimeMs |-> NaN,
                        attemptNumber |-> 1])
                /\ tasks' = [tasks EXCEPT
                       ![i].exec = Len(executions) + 1,
                       ![i].attempt = 1,
                       ![i].at = now,
                       ![i].pc = IF LoopContinues(1, tasks[i].snap.retryCount)
                                 THEN "http" ELSE "writeFailed"]
        /\ UNCHANGED <<phase, now, cfgVars, published, webVars, jobs, scheduleChanges, regVars, queue, pending>>

\* executeHttpRequest resolves or rejects, the transport doing one of outcomes
HttpAttemptWith(outcomes) ==
    \E i \in 1..Len(tasks), o \in outcomes :
        /\ Serving
        /\ tasks[i].pc = "http"
        /\ LET r == executeHttpRequest(o)
               logged == [tasks[i] EXCEPT !.http = Append(@, r)]
           IN tasks' = [tasks EXCEPT ![i] =
                  IF r.threw THEN AttemptFailed(logged, r.message, now)
                  ELSE [logged EXCEPT !.pc = "writeSuccess", !.at = now,
                                      !.result = [status |-> r.status, data |-> r.data,
                                                  isString |-> r.isString]]]
        /\ UNCHANGED <<phase, now, cfgVars, published, webVars, dbVars, regVars, queue, pending, faults>>

\* the SUCCESS transaction commits, or rolls back and throws into the inner
\* catch; emitExecutionCompleted follows the commit inside the same try
WriteSuccess ==
    \E i \in 1..Len(tasks), f \in BOOLEAN :
        /\ Serving
        /\ tasks[i].pc = "writeSuccess"
        /\ Fault(f)
        /\ IF updateRejects(f, jobs[tasks[i].job])
           THEN /\ tasks' = [tasks EXCEPT ![i] =
                       AttemptFailed(tasks[i], "store error", now)]
                /\ UNCHANGED <<jobs, executions, queue, pending>>
           ELSE /\ executions' = [executions EXCEPT ![tasks[i].exec] =
                       [@ EXCEPT !.completedAt = tasks[i].at,
                                 !.status = "SUCCESS",
                                 !.responseStatus = tasks[i].result.status,
                                 !.responseBody = responseBodyToSave(tasks[i].result),
                                 !.executionTimeMs = executionTimeMs(tasks[i]),
                                 !.attemptNumber = tasks[i].attempt]]
                /\ jobs' = [jobs EXCEPT ![tasks[i].job] =
                               terminalJobRow(@, tasks[i], "SUCCESS")]
                /\ IF emitThrows("execution:completed")
                   THEN /\ tasks' = [tasks EXCEPT ![i] =
                               AttemptFailed(Wrote(tasks[i], "SUCCESS"),
                                             "emit error", now)]
                        /\ UNCHANGED <<queue, pending>>
                   ELSE CommitPool(PQueue_next([Pool EXCEPT !.tasks[i] =
                            [Emitted(Wrote(@, "SUCCESS"), "execution:completed", "SUCCESS")
                                EXCEPT !.pc = "done"]], now))
        /\ Drained
        /\ UNCHANGED <<now, cfgVars, published, webVars, scheduleChanges>>

\* setTimeout(resolve, backoffMs) fires
Wake ==
    \E i \in 1..Len(tasks) :
        /\ Serving
        /\ tasks[i].pc = "sleep"
        /\ tasks' = [tasks EXCEPT ![i].pc = "http", ![i].at = now]
        /\ UNCHANGED <<phase, now, cfgVars, published, webVars, dbVars, regVars, queue, pending, faults>>

HttpAttempt == HttpAttemptWith(TransportOutcomes)

\* Answers of status 200 whose bodies exercise the HTML patterns: pages,
\* fragments, other spellings of the tags, JSON that quotes a page.
AnswerOutcomes ==
    [kind : {"response"}, status : {200},
     body : {JsonData, HtmlData}
            \cup [data : {<<" ", "<html", ">">>, <<"<!DocType", "html", ">">>,
                          <<"<hTmL", ">">>, <<"<div", ">", "</html>">>,
                          <<"<div", ">", "</HTML>">>, <<"text", "</html>">>,
                          <<"<div", ">">>},
                  isString : {TRUE}]
            \cup [data : {<<"{", "<!DOCTYPE", "<html", "}">>, <<"{", "<html", "}">>},
                  isString : {FALSE}]]

HttpAnswer == HttpAttemptWith(AnswerOutcomes)

FailureMessage_NoDefault(task) == task.lastError

\* lastError?.message || 'Unknown error'
FailureMessage(task) == IF task.lastError = None THEN "Unknown error" ELSE task.lastError

\* the FAILED transaction commits, or rolls back and throws into the outer catch
WriteFailed ==
    \E i \in 1..Len(tasks), f \in BOOLEAN :
        /\ Serving
        /\ tasks[i].pc = "writeFailed"
        /\ Fault(f)
        /\ IF updateRejects(f, jobs[tasks[i].job])
           THEN /\ tasks' = [tasks EXCEPT ![i].pc = "fatal", ![i].at = now]
                /\ UNCHANGED <<jobs, executions, queue, pending>>
           ELSE /\ executions' = [executions EXCEPT ![tasks[i].exec] =
                       [@ EXCEPT !.completedAt = tasks[i].at,
                                 !.status = "FAILED",
                                 !.errorMessage = FailureMessage(tasks[i]),
                                 !.executionTimeMs = executionTimeMs(tasks[i]),
                                 !.attemptNumber = tasks[i].attempt - 1]]
                /\ jobs' = [jobs EXCEPT ![tasks[i].job] =
                               terminalJobRow(@, tasks[i], "FAILED")]
                /\ IF emitThrows("execution:completed")
                   THEN /\ tasks' = [tasks EXCEPT ![i] =
                               [Wrote(@, "FAILED") EXCEPT !.pc = "fatal", !.at = now]]
                        /\ UNCHANGED <<queue, pending>>
                   ELSE CommitPool(PQueue_next([Pool EXCEPT !.tasks[i] =
                            [Emitted(Wrote(@, "FAILED"), "execution:completed", "FAILED")
                                EXCEPT !.pc = "done"]], now))
        /\ Drained
        /\ UNCHANGED <<now, cfgVars, published, webVars, scheduleChanges>>

\* the outer catch: prisma.cronJob.update({status: FAILED}), then
\* emitExecutionCompleted and the rethrow: the task rejects either way
FatalCatch ==
    \E i \in 1..Len(tasks), f \in BOOLEAN :
        /\ Serving
        /\ tasks[i].pc = "fatal"
        /\ Fault(f)
        /\ IF updateRejects(f, jobs[tasks[i].job])
           THEN /\ UNCHANGED jobs
                /\ Settle(i, "rejected")
           ELSE /\ jobs' = [jobs EXCEPT ![tasks[i].job].status = "FAILED"]
                /\ CommitPool(PQueue_next([Pool EXCEPT !.tasks[i] =
                       [(IF emitThrows("execution:completed") THEN Wrote(@, "FAILED")
                         ELSE Emitted(Wrote(@, "FAILED"), "execution:completed", "FAILED"))
                           EXCEPT !.pc = "rejected"]], now))
        /\ Drained
        /\ UNCHANGED <<now, cfgVars, published, webVars, executions, scheduleChanges>>

(***************************************************************************)
(* Timers, commands, the controller sweep and the boot                     *)
(***************************************************************************)
ExprInputs == {Cron5(Num(5)), Cron5(Step(5)), Cron5(Num(60))}

\* @IsInt() @Min(0) @Max(10) retryCount
RetryCountAccepted(r) == r >= 0 /\ r <= 10
RetryInputs == {r \in 0..MaxRetry : RetryCountAccepted(r)}

\* Request bodies of create: the expression is required, the rest optional
CreateDtos ==
    {Dto({"cronExpression", "timezone"}, e, tz, FALSE, 0, url) :
        e \in ExprInputs, tz \in Timezones, url \in {"json", "html"}}
    \cup {Dto({"cronExpression", "isActive"}, e, "UTC", FALSE, 0, "json") : e \in ExprInputs}
    \cup {Dto({"cronExpression", "retryCount"}, e, "UTC", FALSE, r, "json") :
             e \in ExprInputs, r \in {0}}

\* Request bodies of update: one property each, or a new endpoint that
\* answers the probe with HTML
UpdateDtos ==
    {Dto({"cronExpression"}, e, "UTC", FALSE, 0, None) : e \in ExprInputs}
    \cup {Dto({"timezone"}, NoExpr, tz, FALSE, 0, None) : tz \in Timezones}
    \cup {Dto({"isActive"}, NoExpr, "UTC", a, 0, None) : a \in BOOLEAN}
    \cup {Dto({"retryCount"}, NoExpr, "UTC", FALSE, r, None) : r \in {0}}
    \cup {Dto({"isActive"}, NoExpr, "UTC", TRUE, 0, "html")}

\* the timer of a registered job comes due: its callback calls
\* executeJob(prismaJob) with the row it was registered with
TimerFire ==
    \E tm \in timers :
        /\ Serving
        /\ Cardinality({i \in 1..Len(tasks) : ~tasks[i].manual}) < MaxFirings
        /\ CommitPool(executeJob(Pool, tm.jobId, tm.snap, FALSE, FALSE, now))
        /\ UNCHANGED <<phase, now, cfgVars, published, webVars, dbVars, regVars, faults>>

\* CronJobsService.execute: findOne, the owner check, executeJob(cronJob)
Execute ==
    \E id \in JobIds, userId \in Users :
        /\ Serving
        /\ Cardinality({i \in 1..Len(tasks) : tasks[i].manual}) < MaxManual
        /\ Exists(jobs[id])
        /\ jobs[id].createdBy = userId
        /\ CommitPool(executeJob(Pool, id, jobs[id], FALSE, TRUE, now))
        /\ UNCHANGED <<phase, now, cfgVars, published, webVars, dbVars, regVars, faults>>

FreeIds == {id \in JobIds : jobs[id].st = "free"}

Create ==
    \E dto \in CreateDtos, userId \in Users :
        /\ Serving
        /\ FreeIds # {}
        /\ LET id == CHOOSE i \in FreeIds : \A k \in FreeIds : i <= k
           IN Commit(CronJobsService_create(Current, id, dto, userId, now).s)
        /\ UNCHANGED <<phase, now, cfgVars, published, webVars, executions, poolVars, faults>>

\* PATCH /cron-jobs/:id with a body of dtos
UpdateWith(dtos) ==
    \E id \in JobIds, dto \in dtos, userId \in Users :
        /\ Serving
        /\ LET res == CronJobsService_update(Current, id, dto, userId, now)
           IN /\ Len(res.s.sc) <= MaxChanges
              /\ Commit(res.s)
        /\ UNCHANGED <<phase, now, cfgVars, published, webVars, executions, poolVars, faults>>

Update == UpdateWith(UpdateDtos)

\* the update commands that carry a cron expression only
ExpressionDtos == {dto \in UpdateDtos : dto.has = {"cronExpression"}}
Reschedule == UpdateWith(ExpressionDtos)

Remove ==
    \E id \in JobIds, userId \in Users :
        /\ Serving
        /\ Commit(CronJobsService_remove(Current, id, userId).s)
        /\ UNCHANGED <<phase, now, cfgVars, published, webVars, executions, poolVars, faults>>

Toggle ==
    \E id \in JobIds, userId \in Users :
        /\ Serving
        /\ Commit(CronJobsService_toggle(Current, id, userId).s)
        /\ UNCHANGED <<phase, now, cfgVars, published, webVars, executions, poolVars, faults>>

\* @Cron(EVERY_HOUR) evaluateAndReschedule, with the troubles its
\* iterations meet
SweepWith(troubles) ==
    \E trouble \in troubles :
        /\ Serving
        /\ LET R == evaluateAndReschedule(Current, executions, now, trouble)
           IN /\ Len(R.sc) <= MaxChanges
              /\ Commit(R)
        /\ UNCHANGED <<phase, now, cfgVars, published, webVars, executions, poolVars, faults>>

\* a sweep that meets no trouble
Sweep == SweepWith({[id \in JobIds |-> "none"]})

SweepInTrouble == SweepWith(Troubles)

RECURSIVE BootFrom(_, _)
\* for (const job of activeJobs) await this.registerJob(job): the first
\* registration that throws ends the loop
BootFrom(id, R) ==
    IF id > NumJobs THEN Ok(R)
    ELSE IF Exists(R.jobs[id]) /\ R.jobs[id].isActive
         THEN LET res == registerJob(R, id, R.jobs[id])
              IN IF res.threw THEN res ELSE BootFrom(id + 1, res.s)
         ELSE BootFrom(id + 1, R)

OnModuleInit ==
    /\ phase = "boot"
    /\ LET res == BootFrom(1, Current)
       IN /\ Commit(res.s)
          /\ phase' = IF res.threw THEN "crashed" ELSE "running"
    /\ UNCHANGED <<now, cfgVars, published, webVars, executions, poolVars, faults>>

\* "Clean HTML responses from existing records": every row of logs whose
\* stored body is a non-empty text that looks like HTML is updated to a null
\* body.
cleanedLogs(execs, logs) ==
    [e \in 1..Len(execs) |->
        IF e \in logs /\ ~execs[e].responseBody.isNull
                      /\ execs[e].responseBody.text # <<>>
                      /\ isHtml(execs[e].responseBody.text)
        THEN [execs[e] EXCEPT !.responseBody = NullBody]
        ELSE execs[e]]

\* filters.status of the two log queries
StatusFilters == {None, "SUCCESS", "FAILED", "RUNNING"}

\* MonitoringService.getExecutionHistory(cronJobId, filters)
GetExecutionHistory ==
    \E id \in JobIds, status \in StatusFilters :
        /\ Serving
        /\ executions' = cleanedLogs(executions,
               {e \in 1..Len(executions) :
                   /\ executions[e].cronJobId = id
                   /\ status # None => executions[e].status = status})
        /\ UNCHANGED <<phase, now, cfgVars, published, webVars, jobs, scheduleChanges, regVars, poolVars, faults>>

\* MonitoringService.getGlobalLogs(filters): the job id is optional
GetGlobalLogs ==
    \E ids \in {JobIds} \cup {{id} : id \in JobIds}, status \in StatusFilters :
        /\ Serving
        /\ executions' = cleanedLogs(executions,
               {e \in 1..Len(executions) :
                   /\ executions[e].cronJobId \in ids
                   /\ status # None => executions[e].status = status})
        /\ UNCHANGED <<phase, now, cfgVars, published, webVars, jobs, scheduleChanges, regVars, poolVars, faults>>

\* SchedulerService.onModuleDestroy: await executionQueue.onIdle(), then
\* every registered job is unregistered.  An idle queue resolves at once.
OnModuleDestroy ==
    /\ phase = "running"
    /\ IF Idle(Pool)
       THEN /\ phase' = "stopped"
            /\ LET R == unregisterFrom(1, Current)
               IN /\ registeredJobs' = R.reg
                  /\ schedulerRegistry' = R.sreg
                  /\ timers' = R.timers
       ELSE /\ phase' = "draining"
            /\ UNCHANGED regVars
    /\ UNCHANGED <<now, cfgVars, published, webVars, dbVars, poolVars, faults>>

Tick ==
    /\ now < MaxTime
    /\ now' = now + 1
    /\ UNCHANGED <<phase, cfgVars, published, webVars, dbVars, regVars, poolVars, faults>>

(***************************************************************************)
(* CronJobsService.update, toggle and remove await after await: a call is  *)
(* a record that moves from one await to the next, so that the calls of     *)
(* several requests interleave.                                            *)
(***************************************************************************)
CallOps == {"update", "toggle", "remove"}
NoDto == Dto({}, NoExpr, "UTC", FALSE, 0, None)
CallDtos ==
    {Dto({"cronExpression"}, e, "UTC", FALSE, 0, None) : e \in {Cron5(Num(5)), Cron5(Num(60))}}
    \cup {Dto({"isActive"}, NoExpr, "UTC", a, 0, None) : a \in BOOLEAN}

\* a request reaches the service: the call is at `await this.findOne(id)`.
\* was keeps what the job was like when the request arrived.
Call ==
    \E op \in CallOps, id \in JobIds, userId \in Users, dto \in CallDtos \cup {NoDto} :
        /\ Serving
        /\ Len(calls) < MaxCalls
        /\ (op = "update") = (dto # NoDto)
        /\ calls' = Append(calls,
               [op |-> op, id |-> id, userId |-> userId, dto |-> dto, pc |-> "findOne",
                cronJob |-> FreeRow, updatedJob |-> FreeRow,
                was |-> [isActive |-> jobs[id].isActive,
                         registered |-> registeredJobs[id] # 0]])
        /\ UNCHANGED <<phase, now, cfgVars, published, requestVars, dbVars, regVars,
                       poolVars, faults>>

\* findOne resolves; the owner check and, for update, the validation follow
\* and the next store call is issued
FindOne ==
    \E c \in 1..Len(calls) :
        /\ Serving
        /\ calls[c].pc = "findOne"
        /\ LET call == calls[c]
               row == jobs[call.id]
               next == CASE call.op = "toggle" -> "write"
                         [] call.op = "remove" -> "unregister"
                         [] call.op = "update" ->
                              IF expressionRefused(call.dto) THEN "threw"
                              ELSE IF cronExpressionChanged(call.dto, row) THEN "change"
                              ELSE "write"
           IN calls' = [calls EXCEPT ![c] =
                  IF ~Exists(row) \/ row.createdBy # call.userId
                  THEN [call EXCEPT !.pc = "threw"]      \* NotFound, Forbidden
                  ELSE [call EXCEPT !.cronJob = row, !.pc = next]]
        /\ UNCHANGED <<phase, now, cfgVars, published, requestVars, dbVars, regVars,
                       poolVars, faults>>

\* remove: await this.schedulerService.unregisterJob(id), then the delete is issued
Unregister ==
    \E c \in 1..Len(calls) :
        /\ Serving
        /\ calls[c].pc = "unregister"
        /\ Commit(unregisterJob(Current, calls[c].id))
        /\ calls' = [calls EXCEPT ![c].pc = "write"]
        /\ UNCHANGED <<phase, now, cfgVars, published, requestVars, executions,
                       poolVars, faults>>

\* update: prisma.scheduleChange.create resolves
RecordChange ==
    \E c \in 1..Len(calls) :
        /\ Serving
        /\ calls[c].pc = "change"
        /\ Len(scheduleChanges) < MaxChanges
        /\ LET call == calls[c]
           IN Commit(AppendChange(Current, call.id, call.cronJob.cronExpression,
                                  call.dto.cronExpression, call.userId, None))
        /\ calls' = [calls EXCEPT ![c].pc = "write"]
        /\ UNCHANGED <<phase, now, cfgVars, published, requestVars, executions,
                       poolVars, faults>>

\* prisma.cronJob.update or delete resolves: with the row as it is then, or
\* rejects because the row is gone
StoreWrite ==
    \E c \in 1..Len(calls) :
        /\ Serving
        /\ calls[c].pc = "write"
        /\ LET call == calls[c]
               row == jobs[call.id]
               written ==
                   CASE call.op = "toggle" -> [row EXCEPT !.isActive = ~call.cronJob.isActive]
                     [] call.op = "update" ->
                          updatedRow(row, call.dto,
                                     cronExpressionChanged(call.dto, call.cronJob), now)
                     [] call.op = "remove" -> [FreeRow EXCEPT !.st = "deleted"]
           IN IF ~Exists(row)
              THEN /\ calls' = [calls EXCEPT ![c].pc = "threw"]
                   /\ UNCHANGED jobs
              ELSE /\ jobs' = [jobs EXCEPT ![call.id] = written]
                   /\ calls' = [calls EXCEPT ![c].updatedJob = written,
                                             ![c].pc = IF call.op = "remove" THEN "returned"
                                                       ELSE "registry"]
        /\ UNCHANGED <<phase, now, cfgVars, published, requestVars, executions,
                       scheduleChanges, regVars, poolVars, faults>>

\* the lines after the update of the row: toggle registers or unregisters,
\* update unregisters and registers again if the job is enabled
Reregister ==
    \E c \in 1..Len(calls) :
        /\ Serving
        /\ calls[c].pc = "registry"
        /\ LET call == calls[c]
               res == IF call.op = "toggle"
                      THEN IF call.updatedJob.isActive
                           THEN registerJob(Current, call.id, call.updatedJob)
                           ELSE Ok(unregisterJob(Current, call.id))
                      ELSE LET R1 == unregisterJob(Current, call.id)
                           IN IF call.updatedJob.isActive
                              THEN registerJob(R1, call.id, call.updatedJob)
                              ELSE Ok(R1)
           IN /\ Commit(res.s)
              /\ calls' = [calls EXCEPT ![c].pc = IF res.threw THEN "threw" ELSE "returned"]
        /\ UNCHANGED <<phase, now, cfgVars, published, requestVars, executions,
                       poolVars, faults>>

(***************************************************************************)
(* The REST surface of the cron controller: ApiTokenGuard, then           *)
(* RateLimitInterceptor, then the handler.                                 *)
(***************************************************************************)
Permissions == {"READ", "WRITE", "DELETE", "EXECUTE", "ADMIN"}
Handlers == {"create", "findAll", "findOne", "update", "remove", "toggle",
             "execute", "validateCronExpression"}

\* @RequirePermissions(...) of each handler: the list the guard reads from
\* the metadata key 'permissions'
requiredPermissions(handler) ==
    CASE handler \in {"create", "update", "toggle"} -> {"WRITE", "ADMIN"}
      [] handler \in {"findAll", "findOne", "validateCronExpression"} -> {"READ", "ADMIN"}
      [] handler = "remove" -> {"DELETE", "ADMIN"}
      [] handler = "execute" -> {"EXECUTE", "ADMIN"}

Jwts == {"good.jwt", "bad.jwt"}
TokenStrings == {"tok1", "stale"}
\* where the request carries its credential: ?token= or x-api-token, the
\* access_token cookie, the Authorization: Bearer header, or nowhere
Credentials ==
    [via : {"token"}, value : TokenStrings]
      \cup [via : {"cookie"}, value : Jwts]
      \cup [via : {"bearer"}, value : TokenStrings \cup Jwts]
      \cup {[via |-> "none", value |-> None]}

Verdict(status, key, token) == [status |-> status, key |-> key, token |-> token]

\* requiredPermissions.every(p => permissions.includes(p) || permissions.includes(ADMIN))
hasPermission(permissions, required) ==
    \A permission \in required :
        permission \in permissions \/ "ADMIN" \in permissions

authenticateWithApiToken(table, token, required, t) ==
    IF token \notin DOMAIN table \/ ~table[token].isActive
    THEN Verdict(401, None, None)
    ELSE LET apiTokenRecord == table[token]
         IN IF apiTokenRecord.expiresAt # NaN /\ apiTokenRecord.expiresAt < t
            THEN Verdict(401, None, None)
            ELSE IF required # {} /\ ~hasPermission(apiTokenRecord.permissions, required)
            THEN Verdict(403, None, None)
            ELSE Verdict(200, apiTokenRecord.id, token)

\* jwtService.verify and user.findUnique; the permissions are not looked at
authenticateWithJWT(jwt, required) ==
    IF jwt = "good.jwt" THEN Verdict(200, "u1", None) ELSE Verdict(401, None, None)

canActivate(table, credential, required, t) ==
    CASE credential.via = "token" ->
            authenticateWithApiToken(table, credential.value, required, t)
      [] credential.via = "cookie" -> authenticateWithJWT(credential.value, required)
      [] credential.via = "bearer" ->
            IF credential.value \notin Jwts     \* !token.includes('.')
            THEN authenticateWithApiToken(table, credential.value, required, t)
            ELSE authenticateWithJWT(credential.value, required)
      [] OTHER -> Verdict(400, None, None)

WindowTicks == WindowMs \div MsPerTick

\* Object.keys(this.store).forEach(key => resetAt < now && delete)
cleanup(records, t) ==
    [key \in {k \in DOMAIN records : ~(records[k].resetAt < t)} |-> records[key]]

overLimit_Never(count, max) == FALSE

\* record.count > this.limit
overLimit(count, max) == count > max

\* RateLimitInterceptor.intercept: the new store and the status of the request
intercept(records, key, t, max) ==
    LET cleaned == cleanup(records, t)
    IN IF key \notin DOMAIN records \/ records[key].resetAt < t
       THEN [store |-> [k \in DOMAIN cleaned \cup {key} |->
                            IF k = key THEN [count |-> 1, resetAt |-> t + WindowTicks]
                            ELSE cleaned[k]],
             status |-> 200]
       ELSE LET count == records[key].count + 1
            IN [store |-> [cleaned EXCEPT ![key].count = count],
                status |-> IF overLimit(count, max) THEN 429 ELSE 200]

\* One request to the cron controller, up to the call of its handler
HandleRequest ==
    /\ Serving
    /\ \E handler \in Handlers, credential \in Credentials :
         LET verdict == canActivate(apiTokens, credential, requiredPermissions(handler), now)
         IN IF verdict.status # 200
            THEN /\ response' = [handler |-> handler, credential |-> credential,
                                 at |-> now,
                                 guard |-> verdict.status, status |-> verdict.status]
                 /\ UNCHANGED <<apiTokens, rateLimitStore, passed>>
            ELSE LET met == intercept(rateLimitStore, verdict.key, now, limit)
                 IN /\ verdict.key \in DOMAIN rateLimitStore
                          => rateLimitStore[verdict.key].count <= MaxLimit
                    /\ rateLimitStore' = met.store
                    /\ response' = [handler |-> handler, credential |-> credential,
                                    at |-> now,
                                    guard |-> 200, status |-> met.status]
                    /\ apiTokens' = IF verdict.token = None THEN apiTokens
                                    ELSE [apiTokens EXCEPT ![verdict.token].lastUsedAt = now]
                    /\ passed' = IF met.status = 200
                                 THEN [passed EXCEPT ![verdict.key][now] = @ + 1]
                                 ELSE passed
    /\ UNCHANGED <<phase, now, cfgVars, published, limit, calls, dbVars, regVars,
                   poolVars, faults>>

\* the clock of the REST surface: one tick is one rate-limit window
Elapse ==
    /\ now < MaxWindows * WindowTicks
    /\ now' = now + 1
    /\ UNCHANGED <<phase, cfgVars, published, webVars, dbVars, regVars, poolVars, faults>>

(***************************************************************************)
(* Initial states and specifications                                       *)
(***************************************************************************)
JobRow(active, e, tz, r, owner) ==
    [st |-> "live", isActive |-> active, cronExpression |-> e, timezone |-> tz,
     retryCount |-> r, timeoutMs |-> DefaultTimeoutMs, createdBy |-> owner,
     status |-> "PENDING", lastRunAt |-> NaN, nextRunAt |-> CronNext(e, 0)]

NoJobs == [id \in JobIds |-> FreeRow]
OneJob(row) == [NoJobs EXCEPT ![1] = row]

\* an execution left FAILED by an earlier run of the process
FailedRow(id) ==
    [cronJobId |-> id, startedAt |-> 0, completedAt |-> 0, status |-> "FAILED",
     responseStatus |-> NaN, responseBody |-> NullBody,
     errorMessage |-> "No response received", executionTimeMs |-> 0,
     attemptNumber |-> 1]

\* What the store holds when the process boots
StoreAtBoot ==
    {[jobs |-> NoJobs, executions |-> <<>>],
     [jobs |-> OneJob(JobRow(TRUE, Cron5(Step(5)), "UTC", 1, "u1")), executions |-> <<>>],
     [jobs |-> OneJob(JobRow(TRUE, Cron5(Step(5)), "UTC", 1, "u1")),
      executions |-> <<FailedRow(1), FailedRow(1), FailedRow(1)>>],
     [jobs |-> OneJob(JobRow(TRUE, Cron5(Num(5)), "Mars/Phobos", 1, "u1")),
      executions |-> <<>>],
     [jobs |-> [OneJob(JobRow(TRUE, Cron5(Num(5)), "Mars/Phobos", 1, "u1"))
                   EXCEPT ![2] = JobRow(TRUE, Cron5(Step(5)), "UTC", 1, "u2")],
      executions |-> <<>>]}

\* a row of table apiToken
ApiToken(active, expiresAt, permissions) ==
    [id |-> "tid1", userId |-> "u1", isActive |-> active, expiresAt |-> expiresAt,
     permissions |-> permissions, lastUsedAt |-> NaN]

AdminToken == ApiToken(TRUE, NaN, {"ADMIN"})

RateKeys == {"tid1", "u1"}
NoRecords == [key \in {} |-> [count |-> 0, resetAt |-> 0]]
NoResponse == [handler |-> None, credential |-> [via |-> "none", value |-> None],
               at |-> 0, guard |-> 0, status |-> 0]

\* No request has been made and no service call is in flight
InitWeb(tokenRows, maxima) ==
    /\ apiTokens \in {[token \in {"tok1"} |-> row] : row \in tokenRows}
    /\ response = NoResponse
    /\ rateLimitStore = NoRecords
    /\ limit \in maxima
    /\ passed = [key \in RateKeys |-> [t \in 0..(MaxWindows * WindowTicks) |-> 0]]
    /\ calls = <<>>

InitScheduler(store, limits, flags, broken) ==
    /\ phase = "boot"
    /\ now = 0
    /\ concurrency \in limits
    /\ enabled \in flags
    /\ throwing \in broken
    /\ jobs = store.jobs
    /\ executions = store.executions
    /\ scheduleChanges = <<>>
    /\ registeredJobs = [id \in JobIds |-> 0]
    /\ schedulerRegistry = [id \in JobIds |-> 0]
    /\ timers = {}
    /\ queue = <<>>
    /\ pending = 0
    /\ tasks = <<>>
    /\ faults = 0
    /\ published = {}

InitPublishing(store, limits, flags, broken) ==
    /\ InitScheduler(store, limits, flags, broken)
    /\ InitWeb({AdminToken}, {DefaultRateLimit})

\* the publisher works: server.emit never throws
InitWith(store, limits, flags) == InitPublishing(store, limits, flags, {{}})

Init == \E store \in StoreAtBoot : InitWith(store, 1..MaxConcurrency, BOOLEAN)

Next ==
    \/ OnModuleInit
    \/ Create
    \/ Update
    \/ Remove
    \/ Toggle
    \/ Sweep
    \/ TimerFire
    \/ Execute
    \/ WriteRunning
    \/ CreateExecution
    \/ HttpAttempt
    \/ WriteSuccess
    \/ Wake
    \/ WriteFailed
    \/ FatalCatch
    \/ OnModuleDestroy
    \/ GetExecutionHistory
    \/ GetGlobalLogs
    \/ HandleRequest
    \/ Call
    \/ FindOne
    \/ Unregister
    \/ RecordChange
    \/ StoreWrite
    \/ Reregister
    \/ Tick

Spec == Init /\ [][Next]_vars

\* The registry under commands and sweeps: no firing runs.
NextRegistry ==
    \/ OnModuleInit
    \/ Create
    \/ Update
    \/ Remove
    \/ Toggle
    \/ Sweep

InitRegistry == \E store \in StoreAtBoot : InitWith(store, {MaxConcurrency}, BOOLEAN)

SpecRegistry == InitRegistry /\ [][NextRegistry]_vars

\* The pool and the driver: one job in the store, whose retryCount is any
\* value the interface accepts; it fires, is triggered and may be removed.
DriverStoreAtBoot ==
    {[jobs |-> OneJob(JobRow(TRUE, Cron5(Step(5)), "UTC", r, "u1")), executions |-> <<>>] :
        r \in RetryInputs}

InitDriver == \E store \in DriverStoreAtBoot : InitWith(store, 1..MaxConcurrency, {FALSE})

NextDriver ==
    \/ OnModuleInit
    \/ Remove
    \/ TimerFire
    \/ WriteRunning
    \/ CreateExecution
    \/ HttpAttempt
    \/ WriteSuccess
    \/ Wake
    \/ WriteFailed
    \/ FatalCatch

SpecDriver == InitDriver /\ [][NextDriver]_vars

\* The pool at capacity: one worker, the job fires and is triggered manually.
PoolStoreAtBoot ==
    {[jobs |-> OneJob(JobRow(TRUE, Cron5(Step(5)), "UTC", MaxRetry, "u1")), executions |-> <<>>]}

InitPool == \E store \in PoolStoreAtBoot : InitWith(store, {1}, {FALSE})

NextPool ==
    \/ OnModuleInit
    \/ TimerFire
    \/ Execute
    \/ WriteRunning
    \/ CreateExecution
    \/ HttpAttempt
    \/ WriteSuccess
    \/ Wake
    \/ WriteFailed
    \/ FatalCatch

SpecPool == InitPool /\ [][NextPool]_vars

\* A firing in flight while update commands arrive: one job, registered at
\* boot with minute 7 and a single attempt (no backoff sleep), which the
\* updates rewrite.
InFlightStoreAtBoot ==
    {[jobs |-> OneJob(JobRow(TRUE, Cron5(Num(7)), "UTC", 1, "u1")),
      executions |-> <<>>]}

InitInFlight == \E store \in InFlightStoreAtBoot : InitWith(store, {1}, {FALSE})

NextInFlight ==
    \/ OnModuleInit
    \/ Reschedule
    \/ TimerFire
    \/ WriteRunning
    \/ CreateExecution
    \/ HttpAttempt
    \/ WriteSuccess
    \/ WriteFailed
    \/ FatalCatch

SpecInFlight == InitInFlight /\ [][NextInFlight]_vars

\* Firings while the publisher is broken for some of the event names.
InitEvents ==
    \E store \in DriverStoreAtBoot : InitPublishing(store, {1}, {FALSE}, SUBSET Events)

NextEvents ==
    \/ OnModuleInit
    \/ TimerFire
    \/ WriteRunning
    \/ CreateExecution
    \/ HttpAttempt
    \/ WriteSuccess
    \/ Wake
    \/ WriteFailed
    \/ FatalCatch

SpecEvents == InitEvents /\ [][NextEvents]_vars

\* Shutdown while firings run: one worker, a job with a retry to sleep before.
InitShutdown == \E store \in PoolStoreAtBoot : InitWith(store, {1}, {FALSE})

NextShutdown ==
    \/ OnModuleInit
    \/ OnModuleDestroy
    \/ TimerFire
    \/ WriteRunning
    \/ CreateExecution
    \/ HttpAttempt
    \/ WriteSuccess
    \/ Wake
    \/ WriteFailed
    \/ FatalCatch

SpecShutdown == InitShutdown /\ [][NextShutdown]_vars

\* The controller sweep: one enabled job, any of the minute fields below, and
\* a history of executions that makes some of the rules match.
SuccessRow(id, ms) ==
    [cronJobId |-> id, startedAt |-> 0, completedAt |-> 0, status |-> "SUCCESS",
     responseStatus |-> 200, responseBody |-> NullBody,
     errorMessage |-> None, executionTimeMs |-> ms,
     attemptNumber |-> 1]

Repeat(row, n) == [i \in 1..n |-> row]

Histories(id) ==
    {<<>>,
     Repeat(SuccessRow(id, 1000), 20),
     Repeat(SuccessRow(id, 1000), 17) \o Repeat(SuccessRow(id, DefaultTimeoutMs), 3),
     Repeat(SuccessRow(id, 1000), 7) \o Repeat(SuccessRow(id, DefaultTimeoutMs), 3),
     Repeat(SuccessRow(id, 27000), 10),
     Repeat(SuccessRow(id, 1000), 4) \o Repeat(FailedRow(id), 6),
     Repeat(FailedRow(id), 10),
     Repeat(FailedRow(id), 3)}

SweepExprs ==
    {Cron5(Num(m)) : m \in 0..59}
    \cup {Cron5(Step(st)) : st \in {1, 5, 30}}
    \cup {Cron5(Star), Cron5(List2(1, 2)), Cron5(Range(5, 10))}

SweepStoreAtBoot ==
    {[jobs |-> OneJob(JobRow(TRUE, e, "UTC", 1, "u1")), executions |-> h] :
        e \in SweepExprs, h \in Histories(1)}

InitSweep == \E store \in SweepStoreAtBoot : InitWith(store, {MaxConcurrency}, {TRUE})

NextSweep ==
    \/ OnModuleInit
    \/ Sweep

SpecSweep == InitSweep /\ [][NextSweep]_vars

\* Answers with bodies of every kind, to the firings of the job of
\* InFlightStoreAtBoot.
NextBodies ==
    \/ OnModuleInit
    \/ TimerFire
    \/ WriteRunning
    \/ CreateExecution
    \/ HttpAnswer
    \/ WriteSuccess
    \/ WriteFailed
    \/ FatalCatch

SpecBodies == InitInFlight /\ [][NextBodies]_vars

\* The clock advances between the steps of the driver.
NextClock ==
    \/ OnModuleInit
    \/ TimerFire
    \/ WriteRunning
    \/ CreateExecution
    \/ HttpAttempt
    \/ WriteSuccess
    \/ WriteFailed
    \/ FatalCatch
    \/ Tick

SpecClock == InitInFlight /\ [][NextClock]_vars

\* Logs read while firings run.  The store may hold a record written before
\* the driver filtered HTML answers: its body is the page the endpoint sent.
LogsStoreAtBoot ==
    {[jobs |-> OneJob(JobRow(TRUE, Cron5(Step(5)), "UTC", 1, "u1")), executions |-> h] :
        h \in {<<>>,
               <<[SuccessRow(1, 1000) EXCEPT
                     !.responseBody = [isNull |-> FALSE, text |-> HtmlData.data]]>>}}

InitLogs == \E store \in LogsStoreAtBoot : InitWith(store, {1}, {FALSE})

NextLogs ==
    \/ OnModuleInit
    \/ TimerFire
    \/ WriteRunning
    \/ CreateExecution
    \/ HttpAttempt
    \/ WriteSuccess
    \/ WriteFailed
    \/ FatalCatch
    \/ GetExecutionHistory
    \/ GetGlobalLogs

SpecLogs == InitLogs /\ [][NextLogs]_vars

\* Expressions under commands and sweeps: a job whose history makes a rule
\* rewrite its expression, create and update commands with valid and invalid
\* expressions.
ExpressionStoreAtBoot ==
    {[jobs |-> OneJob(JobRow(TRUE, Cron5(f), "UTC", 1, "u1")), executions |-> h] :
        f \in {Num(5), Num(30), Num(59), Step(5), Step(30)},
        h \in {<<>>, Repeat(FailedRow(1), 10), Repeat(SuccessRow(1, 27000), 10),
               Repeat(SuccessRow(1, 1000), 7) \o Repeat(SuccessRow(1, DefaultTimeoutMs), 3)}}

InitExpressions ==
    \E store \in ExpressionStoreAtBoot : InitWith(store, {MaxConcurrency}, {TRUE})

NextExpressions ==
    \/ OnModuleInit
    \/ Create
    \/ Reschedule
    \/ Sweep

SpecExpressions == InitExpressions /\ [][NextExpressions]_vars

\* Commands that overlap: one job of user u1, enabled or not, and up to
\* MaxCalls update, toggle and remove requests.
CommandStoreAtBoot ==
    {[jobs |-> OneJob(JobRow(a, Cron5(Step(5)), "UTC", 1, "u1")), executions |-> <<>>] :
        a \in BOOLEAN}

InitCommands == \E store \in CommandStoreAtBoot : InitWith(store, {1}, {FALSE})

NextCommands ==
    \/ OnModuleInit
    \/ Call
    \/ FindOne
    \/ Unregister
    \/ RecordChange
    \/ StoreWrite
    \/ Reregister

SpecCommands == InitCommands /\ [][NextCommands]_vars

\* The guard of the cron controller: one API token whose row is any of
\* TokenRows, and requests with every kind of credential.
TokenRows ==
    {ApiToken(active, expiresAt, permissions) :
        active \in BOOLEAN, expiresAt \in {NaN, 0},
        permissions \in {{}, {"READ", "WRITE"}} \cup {{p} : p \in Permissions}}

InitGuard ==
    /\ InitScheduler([jobs |-> NoJobs, executions |-> <<>>], {1}, {FALSE}, {{}})
    /\ InitWeb(TokenRows, {DefaultRateLimit})

NextGuard ==
    \/ OnModuleInit
    \/ HandleRequest
    \/ Tick

SpecGuard == InitGuard /\ [][NextGuard]_vars

\* The rate limit of the cron controller: an ADMIN token and a logged-in
\* user, over the windows of two keys.
InitRateLimit ==
    /\ InitScheduler([jobs |-> NoJobs, executions |-> <<>>], {1}, {FALSE}, {{}})
    /\ InitWeb({AdminToken}, 1..MaxLimit)

NextRateLimit ==
    \/ OnModuleInit
    \/ HandleRequest
    \/ Elapse

SpecRateLimit == InitRateLimit /\ [][NextRateLimit]_vars

\* Sweeps in trouble: two enabled jobs, each with a history of its own.
TroubleStoreAtBoot ==
    {[jobs |-> [id \in JobIds |->
                   JobRow(TRUE, e[id], "UTC", 1, IF id = 1 THEN "u1" ELSE "u2")],
      executions |-> h[1] \o h[2]] :
        e \in [JobIds -> {Cron5(Num(5)), Cron5(Num(30)), Cron5(Step(5))}],
        h \in {[id \in JobIds |-> Repeat(FailedRow(id), n[id])] :
                  n \in [JobIds -> {0, 3, 10}]}}

InitTrouble == \E store \in TroubleStoreAtBoot : InitWith(store, {MaxConcurrency}, {TRUE})

NextTrouble ==
    \/ OnModuleInit
    \/ SweepInTrouble

SpecTrouble == InitTrouble /\ [][NextTrouble]_vars

(***************************************************************************)
(* Properties                                                              *)
(***************************************************************************)
TaskIds == 1..Len(tasks)
ExecIds == 1..Len(executions)
Terminal(row) == row.status \in {"SUCCESS", "FAILED"}
Ended(task) == task.pc \in {"done", "rejected"}
LiveTimersOf(id) == {tm \in timers : tm.jobId = id}

\* C1: while the process runs, the registry holds a timer for job j if and
\* only if j's stored row exists with enabled=true and an expression that
\* parses.  Rows whose timezone the timer library rejects are left aside:
\* they can get no timer at all.
C1_RegistryMatchesRows ==
    phase = "running" =>
        \A id \in JobIds :
            (Exists(jobs[id]) => TimezoneValid(jobs[id].timezone)) =>
                ((registeredJobs[id] # 0) <=>
                    (/\ Exists(jobs[id])
                     /\ jobs[id].isActive
                     /\ CronValid(jobs[id].cronExpression)))

\* C2: after any sequence of registerJob and unregisterJob calls, also calls
\* that fail part-way, every job id has at most one started and not stopped
\* timer, and a registry entry names that timer: a registerJob on a
\* registered id has stopped the timer it replaces.
C2_AtMostOneLiveTimer ==
    \A id \in JobIds :
        /\ Cardinality(LiveTimersOf(id)) <= 1
        /\ registeredJobs[id] # 0 => \E tm \in LiveTimersOf(id) : tm.tid = registeredJobs[id]

\* C2 witness: one job still holds the timer it was registered with although
\* its row was disabled since (a later registerJob must replace that timer),
\* and the registration of another job failed part-way, leaving it no timer.
C2_Witness ==
    \E a \in JobIds, b \in JobIds :
        /\ Exists(jobs[a]) /\ ~jobs[a].isActive /\ Cardinality(LiveTimersOf(a)) = 1
        /\ Exists(jobs[b]) /\ jobs[b].isActive /\ ~TimezoneValid(jobs[b].timezone)
        /\ LiveTimersOf(b) = {}

\* C3: the number of firings executing at once never exceeds maxConcurrent;
\* with maxConcurrent = 1 a firing enqueued later has not performed its first
\* step as long as an earlier one has not finished, backoff sleeps included.
C3_BoundedConcurrency ==
    /\ Cardinality({i \in TaskIds : Running(tasks[i])}) <= concurrency
    /\ concurrency = 1 =>
          \A i \in TaskIds, j \in TaskIds :
              (i < j /\ tasks[j].pc # "queued") => Ended(tasks[i])

\* C3 witness: one worker, the first firing sleeps between two attempts and
\* the second firing waits in the queue.
C3_Witness ==
    /\ concurrency = 1
    /\ Len(tasks) = 2
    /\ tasks[1].pc = "sleep"
    /\ tasks[2].pc = "queued"

\* C4: no step starts a scheduled firing that was waiting in the queue while
\* a manually triggered execution that was waiting with it stays waiting.
C4_ManualBeforeScheduled ==
    [][\A i \in TaskIds, j \in TaskIds :
          ~(/\ tasks[i].manual /\ tasks[i].pc = "queued" /\ tasks'[i].pc = "queued"
            /\ ~tasks[j].manual /\ tasks[j].pc = "queued" /\ tasks'[j].pc # "queued")]_vars

AllResponsesAtLeast400(task) ==
    /\ task.http # <<>>
    /\ \A k \in 1..Len(task.http) : ~task.http[k].threw /\ task.http[k].status >= 400

\* C5: every SUCCESS execution has a responseStatusCode in [200, 400), and a
\* firing whose every attempt received a response with status >= 400 ends
\* with its execution FAILED.
C5_SuccessIsBelow400 ==
    /\ \A e \in ExecIds :
          executions[e].status = "SUCCESS" =>
              (executions[e].responseStatus >= 200 /\ executions[e].responseStatus < 400)
    /\ \A i \in TaskIds :
          (Ended(tasks[i]) /\ tasks[i].exec # 0 /\ AllResponsesAtLeast400(tasks[i]))
              => executions[tasks[i].exec].status = "FAILED"

\* C6: every execution in a terminal state has an attemptNumber of at least
\* 1 and at most the retryCount of its job, for every accepted retryCount.
C6_AttemptNumberInBudget ==
    \A e \in ExecIds :
        (Terminal(executions[e]) /\ Exists(jobs[executions[e].cronJobId])) =>
            /\ executions[e].attemptNumber >= 1
            /\ executions[e].attemptNumber <= jobs[executions[e].cronJobId].retryCount

FailedCalls(task) == {k \in 1..Len(task.http) : task.http[k].threw}

\* C7: within one firing the invoker is called at most retryCount times, no
\* call follows a call that returned a response, and the execution is FAILED
\* only after exactly retryCount failed calls, with the message of the last.
C7_RetryBudget ==
    \A i \in TaskIds :
        /\ Len(tasks[i].http) <= tasks[i].snap.retryCount
        /\ \A k \in 1..(Len(tasks[i].http) - 1) : tasks[i].http[k].threw
        /\ (tasks[i].exec # 0 /\ executions[tasks[i].exec].status = "FAILED"
              /\ tasks[i].snap.retryCount >= 1) =>
               /\ Cardinality(FailedCalls(tasks[i])) = tasks[i].snap.retryCount
               /\ executions[tasks[i].exec].errorMessage
                      = tasks[i].http[Len(tasks[i].http)].message

\* C8: the sleep after failed attempt k is min(1000 * 2^(k-1), 60000) ms, and
\* no sleep follows the last attempt (so none at all with retryCount = 1).
C8_BackoffSchedule ==
    \A i \in TaskIds :
        /\ \A k \in 1..Len(tasks[i].sleeps) :
              tasks[i].sleeps[k] = Min2(BackoffBaseMs * Pow2(k - 1), BackoffCapMs)
        /\ Len(tasks[i].sleeps) <= Max2(tasks[i].snap.retryCount - 1, 0)

\* C9: a firing's execution row and its job row get the terminal status in
\* one step: the job row records the firing's terminal status exactly when
\* the firing's execution row holds that status.
C9_TerminalWriteIsAtomic ==
    \A i \in TaskIds :
        tasks[i].exec # 0 =>
            /\ tasks[i].wroteJob # None =>
                  executions[tasks[i].exec].status = tasks[i].wroteJob
            /\ Terminal(executions[tasks[i].exec]) =>
                  tasks[i].wroteJob = executions[tasks[i].exec].status

\* C10: each execution row satisfies: SUCCESS or FAILED implies completedAt
\* is set, SUCCESS implies responseStatus is set, FAILED implies
\* errorMessage is set.
C10_TerminalRowsAreComplete ==
    \A e \in ExecIds :
        /\ Terminal(executions[e]) => executions[e].completedAt # NaN
        /\ executions[e].status = "SUCCESS" => executions[e].responseStatus # NaN
        /\ executions[e].status = "FAILED" => executions[e].errorMessage # None

\* C10 witness: one firing has ended with a SUCCESS row and another with a
\* FAILED row.
C10_Witness ==
    \E a \in TaskIds, b \in TaskIds :
        /\ tasks[a].exec # 0 /\ executions[tasks[a].exec].status = "SUCCESS"
        /\ tasks[b].exec # 0 /\ executions[tasks[b].exec].status = "FAILED"

\* the SUCCESS or the FAILED transaction of firing i commits in this step
TerminalWrite(i) ==
    /\ i <= Len(tasks')
    /\ tasks[i].exec # 0
    /\ executions'[tasks[i].exec] # executions[tasks[i].exec]

\* C11: right after a terminal write the job's nextRunAt is later than the
\* time of the write and is the next firing of the expression the job row
\* holds at that moment, also when an update changed it during the firing.
C11_NextRunFollowsStoredExpression ==
    [][\A i \in TaskIds :
          TerminalWrite(i) =>
              /\ jobs'[tasks[i].job].nextRunAt > now'
              /\ jobs'[tasks[i].job].nextRunAt
                     = CronNext(jobs'[tasks[i].job].cronExpression, now')]_vars

\* C12: as long as the store has not failed, a publication that throws
\* changes nothing of what is persisted: no invoker call follows a call that
\* returned a response, a firing that has ended has an execution in a
\* terminal state, and an execution is FAILED only if no call of its firing
\* returned a response (a committed SUCCESS is not overwritten).
C12_PublishFailureLeavesRowsAlone ==
    faults = 0 =>
        \A i \in TaskIds :
            /\ \A k \in 1..(Len(tasks[i].http) - 1) : tasks[i].http[k].threw
            /\ Ended(tasks[i]) =>
                  (tasks[i].exec # 0 /\ Terminal(executions[tasks[i].exec]))
            /\ (tasks[i].exec # 0 /\ executions[tasks[i].exec].status = "FAILED") =>
                  \A k \in 1..Len(tasks[i].http) : tasks[i].http[k].threw

\* What a sweep step sees of job id: its metrics and the rules that match
Metrics(id) == calculateMetrics(jobs[id], id, executions)
Matches(k, id) == RuleCondition(k, jobs[id], Metrics(id))
Swept(id) == Sweep /\ enabled /\ Exists(jobs[id]) /\ jobs[id].isActive
NewChanges(id) ==
    SelectSeq(SubSeq(scheduleChanges', Len(scheduleChanges) + 1, Len(scheduleChanges')),
              LAMBDA c : c.cronJobId = id)

\* C13: a sweep leaves the expression and the enabled flag of a job whose
\* metrics satisfy rule 1 as they are, whatever rules 2 to 5 evaluate to.
C13_Rule1KeepsTheJob ==
    [][\A id \in JobIds :
          (Swept(id) /\ Matches(1, id)) =>
              /\ jobs'[id].cronExpression = jobs[id].cronExpression
              /\ jobs'[id].isActive = jobs[id].isActive]_vars

\* C14: a sweep of a job whose metrics satisfy rules 2 and 5 and not rule 1
\* leaves the job enabled and applies rule 2 only: its expression becomes
\* the doubled one, or stays as it is when the update rejects the doubled
\* expression or doubling changes nothing.
C14_Rule2BeforeRule5 ==
    [][\A id \in JobIds :
          (Swept(id) /\ Matches(2, id) /\ Matches(5, id) /\ ~Matches(1, id)) =>
              /\ jobs'[id].isActive
              /\ \/ jobs'[id].cronExpression
                       = extendCronInterval(jobs[id].cronExpression, 2, 1)
                 \/ /\ ~CronValid(extendCronInterval(jobs[id].cronExpression, 2, 1))
                    /\ jobs'[id].cronExpression = jobs[id].cronExpression]_vars

\* C14 witness: a job whose history satisfies rules 2 and 5 and not rule 1
\* has been swept: the sweep rewrote its expression and left it enabled.
C14_Witness ==
    \E id \in JobIds :
        /\ phase = "running" /\ enabled
        /\ Exists(jobs[id]) /\ jobs[id].isActive
        /\ Matches(2, id) /\ Matches(5, id) /\ ~Matches(1, id)
        /\ \E c \in 1..Len(scheduleChanges) :
              /\ scheduleChanges[c].cronJobId = id
              /\ scheduleChanges[c].reason = AutoReason
              /\ scheduleChanges[c].newCronExpression = jobs[id].cronExpression

\* C15: a sweep that applies rule 5 to a job (no rule before it matching)
\* leaves the job disabled, without a timer in the registry, and appends no
\* ScheduleChange row for it.
C15_Rule5DisablesAndUnregisters ==
    [][\A id \in JobIds :
          (Swept(id) /\ Matches(5, id) /\ \A k \in 1..4 : ~Matches(k, id)) =>
              /\ ~jobs'[id].isActive
              /\ registeredJobs'[id] = 0
              /\ {tm \in timers' : tm.jobId = id} = {}
              /\ NewChanges(id) = <<>>]_vars

\* C16: a sweep that rewrites the expression of a job appends exactly one
\* ScheduleChange row for it, with the old and the new expression and the
\* reason "auto:" followed by the name of a rule that matched.
C16_OneChangeRowPerRewrite ==
    [][\A id \in JobIds :
          (Swept(id) /\ jobs'[id].cronExpression # jobs[id].cronExpression) =>
            LET AutoReasonOf(k) == CASE k = 2 -> "auto:failure-based-backoff"
                                     [] k = 3 -> "auto:timeout-based-reduce"
                                     [] k = 4 -> "auto:load-based-distribute"
            IN
              /\ Len(NewChanges(id)) = 1
              /\ NewChanges(id)[1].oldCronExpression = jobs[id].cronExpression
              /\ NewChanges(id)[1].newCronExpression = jobs'[id].cronExpression
              /\ \E k \in 2..4 :
                    Matches(k, id) /\ NewChanges(id)[1].reason = AutoReasonOf(k)]_vars

C20_BootSkipsFailingJob ==
    [][phase = "boot" =>
          /\ phase' = "running"
          /\ \A id \in JobIds :
                (Exists(jobs[id]) /\ jobs[id].isActive /\ CronJobConstructs(jobs[id]))
                    => registeredJobs'[id] # 0]_vars

\* The factors of the rules (2, 1.5, 1.2) and factors whose inverse is a
\* float too (2, 1/2, 4, 1/4), as pairs <<numerator, denominator>>
RuleFactors == {<<2, 1>>, <<3, 2>>, <<6, 5>>}
DyadicFactors == {<<2, 1>>, <<1, 2>>, <<4, 1>>, <<1, 4>>}
StoredExpressions == {jobs[id].cronExpression : id \in {i \in JobIds : Exists(jobs[i])}}

\* C18: extendCronInterval on a 5-field expression rewrites a plain number
\* m in the minute field to floor(max(1, m * factor)) and a step */s to
\* */floor(max(1, s * factor)), leaves every other minute field (wildcard,
\* list, range) as it is, and never changes the other four fields.
C18_ExtendRewritesNumberOrStep ==
    \A e \in StoredExpressions, f \in RuleFactors \cup DyadicFactors :
        LET FloorMax1(n) == IF n * f[1] < f[2] THEN 1 ELSE (n * f[1]) \div f[2]
            expected ==
                IF IsNumField(e[1]) THEN [e EXCEPT ![1] = Num(FloorMax1(e[1][1].n))]
                ELSE IF IsStepField(e[1]) THEN [e EXCEPT ![1] = Step(FloorMax1(e[1][3].n))]
                ELSE e
        IN extendCronInterval(e, f[1], f[2]) = expected

\* C19 as the specification states it: for every numeric minute m in 0..59
\* and factor f with m * f an integer, extending by f and then by 1/f gives
\* the expression back.
C19_RoundTripFromZero ==
    \A e \in StoredExpressions, f \in DyadicFactors :
        (IsNumField(e[1]) /\ (e[1][1].n * f[1]) % f[2] = 0) =>
            extendCronInterval(extendCronInterval(e, f[1], f[2]), f[2], f[1]) = e

\* C19: for every numeric minute m in 1..59 and factor f with m * f an
\* integer, extending by f and then by 1/f gives the expression back.
C19_RoundTripFromOne ==
    \A e \in StoredExpressions, f \in DyadicFactors :
        (IsNumField(e[1]) /\ e[1][1].n >= 1 /\ (e[1][1].n * f[1]) % f[2] = 0) =>
            extendCronInterval(extendCronInterval(e, f[1], f[2]), f[2], f[1]) = e

\* C19 witness: a sweep has doubled the numeric minute of a job, and halving
\* the stored expression gives the old one back.
C19_Witness ==
    \E c \in 1..Len(scheduleChanges) :
        LET old == scheduleChanges[c].oldCronExpression
            id == scheduleChanges[c].cronJobId
        IN /\ scheduleChanges[c].reason = AutoReason
           /\ IsNumField(old[1]) /\ old[1][1].n >= 1
           /\ jobs[id].cronExpression = extendCronInterval(old, 2, 1)
           /\ jobs[id].cronExpression # old
           /\ extendCronInterval(jobs[id].cronExpression, 1, 2) = old

\* C21: a firing whose timer came due, or whose manual trigger arrived, after
\* the shutdown began stays out of the worker pool: it is never started.
C21_NoAdmissionWhileDraining ==
    \A i \in TaskIds : tasks[i].arrived = "draining" => tasks[i].pc = "queued"

\* C22: once the shutdown has begun, a firing that is in its backoff sleep
\* does not wake to another HTTP attempt: it stays asleep until it is
\* cancelled, and is then written FAILED with errorMessage CANCELLED.  (The
\* grace deadline is a setting; the property is the one a deadline shorter
\* than the remaining sleep asks for.)
C22_SleepEndsCancelled ==
    [][\A i \in TaskIds :
          (phase = "draining" /\ tasks[i].pc = "sleep") =>
              \/ tasks'[i].pc = "sleep"
              \/ /\ tasks'[i].pc # "http"
                 /\ executions'[tasks[i].exec].status = "FAILED"
                 /\ executions'[tasks[i].exec].errorMessage = "CANCELLED"]_vars

\* C23: in a sweep, whatever trouble the iterations of the other jobs meet
\* (a store error, a rejected update, a job deleted since the list was
\* read), every enabled job of the list that meets none is evaluated and has
\* its rule action applied, as if it were swept alone.
C23_SweepGoesOn ==
    [][\A trouble \in Troubles :
          (enabled /\ SweepWith({trouble})) =>
              \A id \in JobIds :
                  (Exists(jobs[id]) /\ jobs[id].isActive /\ trouble[id] = "none") =>
                      LET alone == SweepJob(Current, id, jobs[id], executions, now)
                      IN /\ jobs'[id] = alone.jobs[id]
                         /\ NewChanges(id) =
                               SubSeq(alone.sc, Len(scheduleChanges) + 1, Len(alone.sc))]_vars

\* C23 witness: the first job was deleted under a sweep, and the second job
\* of the list has been rewritten by the controller.
C23_Witness ==
    /\ phase = "running" /\ enabled
    /\ jobs[1].st = "deleted"
    /\ \E c \in 1..Len(scheduleChanges) :
          /\ scheduleChanges[c].cronJobId = 2
          /\ scheduleChanges[c].reason = AutoReason
          /\ scheduleChanges[c].newCronExpression = jobs[2].cronExpression

\* C24: with the auto-rescheduling flag off, a sweep changes nothing: every
\* job row, both registries, the timers and the ScheduleChange rows are
\* after the sweep what they were before it.
C24_DisabledSweepIsANoOp ==
    [][(~enabled /\ SweepInTrouble) => UNCHANGED <<dbVars, regVars>>]_vars

\* C24 witness: the flag is off and the process is running with an enabled
\* job whose history satisfies rule 5, the job a sweep would disable.
C24_Witness ==
    /\ ~enabled /\ phase = "running"
    /\ \E id \in JobIds :
          /\ Exists(jobs[id]) /\ jobs[id].isActive /\ registeredJobs[id] # 0
          /\ Matches(5, id) /\ \A k \in 1..4 : ~Matches(k, id)

\* C25: when two firings of a job have overlapped and every firing of the
\* job has completed with a terminal write, the lifecycleStatus stored on
\* the job is the terminal status of the firing that wrote last, whichever
\* firing started last.
C25_LastTerminalWriteWins ==
    \A id \in JobIds :
        LET mine == {i \in TaskIds : tasks[i].job = id}
            writers == {i \in mine : tasks[i].order > 0}
        IN (/\ Exists(jobs[id])
            /\ writers # {}
            /\ \A i \in mine : Ended(tasks[i]) /\ i \in writers)
           => LET last == CHOOSE i \in writers :
                              \A k \in writers : tasks[k].order <= tasks[i].order
              IN jobs[id].status = tasks[last].wroteJob

\* C25 witness: two firings of a job ran at the same time; the one that
\* started first wrote its terminal status last, and it differs from the
\* status of the other.
C25_Witness ==
    \E a, b \in TaskIds :
        /\ a < b /\ tasks[a].job = tasks[b].job
        /\ Ended(tasks[a]) /\ Ended(tasks[b])
        /\ tasks[b].order > 0 /\ tasks[a].order > tasks[b].order
        /\ tasks[a].wroteJob # tasks[b].wroteJob
        /\ jobs[tasks[a].job].status = tasks[a].wroteJob

\* C26: a firing that starts after the row of its job was deleted aborts
\* without writing: it calls the invoker never, it has no Execution row, it
\* writes no status on a job row, and the deleted row stays as the delete
\* left it.
C26_StartAfterDeleteAborts ==
    \A i \in TaskIds :
        tasks[i].gone =>
            /\ tasks[i].pc \in {"writeRunning", "rejected"}
            /\ tasks[i].http = <<>>
            /\ tasks[i].exec = 0
            /\ tasks[i].wroteJob = None
            /\ jobs[tasks[i].job] = [FreeRow EXCEPT !.st = "deleted"]
            /\ \A e \in ExecIds :
                  executions[e].cronJobId = tasks[i].job =>
                      \E k \in TaskIds : k # i /\ tasks[k].exec = e

\* C26 witness: a firing waited in the queue while its job was deleted,
\* started after the delete and has been rejected.
C26_Witness ==
    \E i \in TaskIds :
        /\ tasks[i].gone /\ tasks[i].pc = "rejected"
        /\ jobs[tasks[i].job].st = "deleted"

C28_HtmlBodiesAreDropped ==
    \A i \in TaskIds :
        LET text == TrimLeft(tasks[i].result.data)
            Lower(tok) ==
                CASE tok \in {"<!DOCTYPE", "<!doctype", "<!Doctype", "<!DocType"} -> "<!doctype"
                  [] tok \in {"<html", "<HTML", "<Html", "<hTmL"} -> "<html"
                  [] tok \in {"</html>", "</HTML>"} -> "</html>"
                  [] OTHER -> tok
            LooksLikeHtml ==
                \/ Lower(Head(text)) \in {"<!doctype", "<html"}
                \/ /\ OpensTag(Head(text))
                   /\ \E k \in 2..Len(text) : Lower(text[k]) = "</html>"
        IN (Ended(tasks[i]) /\ faults = 0 /\ text # <<>>) =>
               /\ tasks[i].exec # 0
               /\ executions[tasks[i].exec].status = "SUCCESS"
               /\ executions[tasks[i].exec].responseBody.isNull <=> LooksLikeHtml

\* C29: every execution in a terminal state has completedAt at or after
\* startedAt, and its duration (executionTimeMs) is completedAt minus
\* startedAt, whatever time passes between the steps of the driver.
C29_DurationIsCompletedMinusStarted ==
    \A e \in ExecIds :
        Terminal(executions[e]) =>
            /\ executions[e].completedAt >= executions[e].startedAt
            /\ executions[e].executionTimeMs
                  = (executions[e].completedAt - executions[e].startedAt) * MsPerTick

\* C30: a sweep that rewrites the expression of a job sends a
\* schedule:changed event with the job, the old and the new expression, and
\* a sweep that disables a job sends a cron:updated event for it.
C30_SweepPublishesItsChanges ==
    [][\A id \in JobIds :
          Swept(id) =>
              /\ jobs'[id].cronExpression # jobs[id].cronExpression =>
                    [event |-> "schedule:changed", jobId |-> id,
                     oldExpression |-> jobs[id].cronExpression,
                     newExpression |-> jobs'[id].cronExpression] \in published'
              /\ ~jobs'[id].isActive =>
                    [event |-> "cron:updated", jobId |-> id,
                     oldExpression |-> NoExpr, newExpression |-> NoExpr] \in published']_vars

(***************************************************************************)
(* The REST surface                                                        *)
(***************************************************************************)
\* README, API Token Permissions: the scope of each operation
Scope(handler) ==
    CASE handler \in {"create", "update"} -> "WRITE"
      [] handler = "remove" -> "DELETE"
      [] handler = "execute" -> "EXECUTE"
      [] handler = "findAll" -> "READ"

\* the last request carried an API token that is active and not expired
ByLiveToken ==
    /\ response.credential.via \in {"token", "bearer"}
    /\ response.credential.value \in DOMAIN apiTokens
    /\ apiTokens[response.credential.value].isActive
    /\ LET expiresAt == apiTokens[response.credential.value].expiresAt
       IN expiresAt = NaN \/ ~(expiresAt < response.at)

\* C31: an active, unexpired API token is admitted to create, update,
\* delete, trigger or list exactly when its permissions hold the scope the
\* README gives the operation, or ADMIN; without them it is answered 403.
C31_TokenScopes ==
    (ByLiveToken /\ response.handler \in {"create", "update", "remove", "execute", "findAll"})
        => LET permissions == apiTokens[response.credential.value].permissions
               holds == Scope(response.handler) \in permissions \/ "ADMIN" \in permissions
           IN /\ holds <=> response.guard = 200
              /\ ~holds => response.guard = 403

\* C32: the shutdown completes even though timers keep coming due: the drain
\* waits for the firings that were in the worker pool when onModuleDestroy
\* was called and for nothing else, so that once they have settled the
\* timers are unregistered and the shutdown is over.
C32_DrainEndsWithItsFirings ==
    phase = "draining" =>
        \E i \in TaskIds : tasks[i].arrived # "draining" /\ ~Ended(tasks[i])

\* C33: when the store fails on the SUCCESS write of a firing whose attempt
\* got a successful response, the firing does not go on to a backoff sleep
\* or to another call of the endpoint.
C33_StoreErrorIsNotAnAttemptFailure ==
    [][\A i \in TaskIds :
          (/\ tasks[i].pc = "writeSuccess"
           /\ tasks[i].result.status < 400
           /\ faults' = faults + 1)
              => tasks'[i].pc \notin {"sleep", "http"}]_vars

\* the factor of the rule that rewrites expressions
Factor(k) == CASE k = 2 -> <<2, 1>> [] k = 3 -> <<3, 2>> [] k = 4 -> <<6, 5>>

\* the expression the sweep would give job id: that of the first of rules 2
\* to 4 that matches
Extension(id) ==
    LET k == CHOOSE r \in 2..4 : Matches(r, id) /\ \A q \in 2..(r - 1) : ~Matches(q, id)
    IN extendCronInterval(jobs[id].cronExpression, Factor(k)[1], Factor(k)[2])

C35_OneRowOneTransition ==
    [][/\ \A i \in TaskIds :
            /\ tasks[i].exec # 0 => tasks'[i].exec = tasks[i].exec
            /\ (~Ended(tasks[i]) /\ Ended(tasks'[i])) =>
                   /\ tasks'[i].exec # 0
                   /\ Terminal(executions'[tasks'[i].exec])
       /\ \A e \in ExecIds :
            Terminal(executions[e]) =>
                executions'[e].status = executions[e].status]_vars

\* the execution:completed events every client got for a firing
Completions(task) ==
    {k \in 1..Len(task.events) :
        task.events[k].name = "execution:completed" /\ task.events[k].to = "all"}

\* C36: a firing for which execution:started was sent and whose store calls
\* all succeeded has, once it has ended, sent execution:completed exactly
\* once, after the started event and after the terminal write of its
\* Execution row, with the status that row has.
C36_OneCompletedPerStarted ==
    \A i \in TaskIds :
        (/\ Ended(tasks[i])
         /\ faults = 0
         /\ \E k \in 1..Len(tasks[i].events) : tasks[i].events[k].name = "execution:started")
            => /\ Cardinality(Completions(tasks[i])) = 1
               /\ \A k \in Completions(tasks[i]) :
                     /\ \E j \in 1..(k - 1) : tasks[i].events[j].name = "execution:started"
                     /\ tasks[i].exec # 0
                     /\ Terminal(executions[tasks[i].exec])
                     /\ tasks[i].events[k].status = executions[tasks[i].exec].status

\* every call of the service has returned or thrown
AllReturned == \A c \in 1..Len(calls) : calls[c].pc \in {"returned", "threw"}

\* C37: once overlapping update, toggle and remove commands on a job have
\* all returned, the registry holds a timer for the job exactly when its row
\* exists and is enabled, and no timer is left for a job that was deleted.
C37_RegistryMatchesRowsAfterCommands ==
    (phase = "running" /\ calls # <<>> /\ AllReturned) =>
        \A id \in JobIds :
            /\ (registeredJobs[id] # 0) <=> (Exists(jobs[id]) /\ jobs[id].isActive)
            /\ ~Exists(jobs[id]) => LiveTimersOf(id) = {}

\* C38: two toggle commands on a job, run one after the other or
\* overlapping, leave its enabled flag and its membership of the registry
\* as they were before the first of them.
C38_TwoTogglesRestore ==
    (/\ phase = "running"
     /\ Len(calls) = 2
     /\ \A c \in 1..2 : calls[c].op = "toggle" /\ calls[c].pc = "returned"
     /\ calls[1].id = calls[2].id)
        => /\ jobs[calls[1].id].isActive = calls[1].was.isActive
           /\ (registeredJobs[calls[1].id] # 0) = calls[1].was.registered

RECURSIVE LetThrough(_, _, _)
\* the requests of key that were let through at the times a..b
LetThrough(key, a, b) ==
    IF a > b THEN 0
    ELSE (IF a \in DOMAIN passed[key] THEN passed[key][a] ELSE 0) + LetThrough(key, a + 1, b)

\* the key of the request that was answered last: the id of its API token,
\* else the id of its user
RequestKey(answer) == IF answer.credential.value \in Jwts THEN "u1" ELSE "tid1"

\* the count of key in its running window at time t: 0 once resetAt is past
CountAt(records, key, t) ==
    IF key \in DOMAIN records /\ ~(records[key].resetAt < t) THEN records[key].count ELSE 0

\* C39: for each rate-limit key at most `limit` requests are let through
\* from the first request of a window to its resetAt, one window later; a
\* request that comes after resetAt is let through and starts a window with
\* count 1; and a request changes the count of no key but its own.
C39_RateLimitPerKey ==
    /\ [](\A key \in DOMAIN rateLimitStore :
             LetThrough(key, rateLimitStore[key].resetAt - WindowTicks,
                        rateLimitStore[key].resetAt) <= limit)
    /\ [][(rateLimitStore' # rateLimitStore) =>      \* a request met the interceptor
             LET key == RequestKey(response')
             IN /\ (key \in DOMAIN rateLimitStore /\ rateLimitStore[key].resetAt < now)
                      => /\ response'.status = 200
                         /\ rateLimitStore'[key] = [count |-> 1, resetAt |-> now + WindowTicks]
                /\ \A other \in RateKeys \ {key} :
                      CountAt(rateLimitStore', other, now) = CountAt(rateLimitStore, other, now)]_vars

\* C39 witness: a key has had a request refused in its running window, that
\* window is not its first, and another key has a window too.
C39_Witness ==
    \E key \in DOMAIN rateLimitStore :
        /\ rateLimitStore[key].count > limit
        /\ response.status = 429
        /\ \E t \in 0..(rateLimitStore[key].resetAt - WindowTicks - 1) : passed[key][t] > 0
        /\ \E other \in DOMAIN rateLimitStore : other # key

====
